---- MODULE Spec2Model ----
(***************************************************************************)
(* Seating-chart designer: the layout / interaction engine of App.jsx, the *)
(* hit tester of canvasRenderer.js and the data model of models.js.        *)
(*                                                                         *)
(* Lengths are exact rationals of the source, stored as integers in units  *)
(* of 1/UNIT foot (x, y, widthFt, heightFt, origX, ... are all in units).  *)
(* Pointer coordinates are canvas pixels, as in the source.                *)
(***************************************************************************)
EXTENDS Integers, Sequences, FiniteSets, TLC

\* ------------------------------------------------------------------ bounds

\* Units per foot: 12 represents px/12 ft (scale 12), halves and quarters exactly.
UNIT == 12
ZOOM_FIT == 100
ZOOM_STEP == 25
ZOOM_MIN == 25
ZOOM_MAX == 400
\* Largest number of committed entities of one kind the model lets exist.
MaxPerKind == 3
\* Deepest undo stack the model explores (the program's own limit is UNDO_LIMIT).
MaxUndo == 2
\* Roster size after loadCSV.
NumAttendees == 2
MaxId == 3
MaxSeatOps == 3
MaxPan == 4
\* Rotate presses in a row on one selection.
MaxRotations == 4
\* Largest roster after guests are added by hand.
MaxRoster == 5

\* ------------------------------------------------------- program constants

UNDO_LIMIT == 50
CANVAS_W == 800
CANVAS_H == 600
CANVAS_MARGIN == 80
MIN_SCALE == 2
DRAG_THRESHOLD_NUM == 1
DRAG_THRESHOLD_DEN == 2
PAN_THRESHOLD_PX == 3
MIN_SIZE == 2
COPY_OFFSET == 3
INIT_ROOM_WIDTH == 60
INIT_ROOM_HEIGHT == 40
INIT_GRID_SIZE == 1

\* ----------------------------------------------------------------- helpers

NULL == [type |-> "null"]

Max(a, b) == IF a >= b THEN a ELSE b
Min(a, b) == IF a <= b THEN a ELSE b
Abs(a) == IF a < 0 THEN -a ELSE a
Ft(n) == n * UNIT

\* Math.round(n / d) for d > 0: floor(n/d + 1/2), halves go up.
MathRound(n, d) == (2 * n + d) \div (2 * d)

Range(s) == {s[i] : i \in DOMAIN s}
SeqMap(Op(_), s) == [i \in 1..Len(s) |-> Op(s[i])]
SeqFilter(Keep(_), s) == SelectSeq(s, Keep)

\* Object without one key, and Object with one key set ({...a, [k]: v}).
Without(f, k) == [j \in (DOMAIN f) \ {k} |-> f[j]]
With(f, k, v) == [j \in (DOMAIN f) \cup {k} |-> IF j = k THEN v ELSE f[j]]
EmptyMap == [j \in {} |-> 0]

VARIABLES
    roomWidth, roomHeight,          \* feet
    tables, chairBlocks, venueElements,
    attendees, disabledAttendees,
    nextTableId, nextBlockId, nextElementId,
    selectedItem, selectedItems,
    gridSize, snapEnabled,
    ghostEntity,                    \* ghostType is ghostEntity.type
    dragging, dragRef, panRef, resizeRef,
    panX, panY, zoomLevel,          \* pixels, pixels, percent
    dragAttendee, popupDragSeat, selectedAttendee,
    undoStack, redoStack,
    button,                         \* the single pointer: "up" or "down"
    lastOp,                         \* the handler that ran last, with its arguments
    gest                            \* observer of the current pointer gesture

domainVars == <<tables, chairBlocks, venueElements, attendees, disabledAttendees>>
idVars == <<nextTableId, nextBlockId, nextElementId>>
roomVars == <<roomWidth, roomHeight>>
snapVars == <<gridSize, snapEnabled>>
selVars == <<selectedItem, selectedItems>>
gestureVars == <<dragging, dragRef, panRef, resizeRef>>
panVars == <<panX, panY, zoomLevel>>
seatDragVars == <<dragAttendee, popupDragSeat, selectedAttendee>>
stackVars == <<undoStack, redoStack>>

vars == <<roomVars, domainVars, idVars, selVars, snapVars, ghostEntity,
          gestureVars, panVars, seatDragVars, stackVars, button, lastOp, gest>>

\* ------------------------------------------------------------ data model

createTable(id, x, y, tableType, seats, widthFt, heightFt, orientation, endSeats) ==
    [type |-> "table", id |-> id, x |-> x, y |-> y, tableType |-> tableType,
     seats |-> seats, widthFt |-> widthFt, heightFt |-> heightFt,
     orientation |-> orientation, endSeats |-> endSeats,
     locked |-> FALSE, assignments |-> EmptyMap]

createChairBlock(id, x, y, rows, cols, spacing) ==
    [type |-> "block", id |-> id, x |-> x, y |-> y, rows |-> rows, cols |-> cols,
     spacing |-> spacing, locked |-> FALSE, assignments |-> EmptyMap]

createVenueElement(id, x, y, widthFt, heightFt) ==
    [type |-> "venue", id |-> id, x |-> x, y |-> y,
     widthFt |-> widthFt, heightFt |-> heightFt, locked |-> FALSE]

getTableTotalSeats(t) ==
    IF t.tableType = "round" THEN t.seats ELSE (t.seats * 2) + (t.endSeats * 2)

\* { tight: 1.5, normal: 2, wide: 2.5 }[b.spacing] || 2, in units
getBlockChairSpacing(b) ==
    CASE b.spacing = "tight" -> (3 * UNIT) \div 2
      [] b.spacing = "normal" -> 2 * UNIT
      [] b.spacing = "wide" -> (5 * UNIT) \div 2
      [] OTHER -> 2 * UNIT

getBlockDimensions(b) ==
    [widthFt |-> b.cols * getBlockChairSpacing(b),
     heightFt |-> b.rows * getBlockChairSpacing(b)]

getBlockTotalSeats(b) == b.rows * b.cols

\* Seat keys of an entity in the order the source enumerates them: 0..total-1 for a
\* table, "r-c" row-major for a block (the key "r-c" is the pair <<r, c>>).
TableSeatKeys(t) == [i \in 1..getTableTotalSeats(t) |-> i - 1]
BlockSeatKeys(b) == [i \in 1..(b.rows * b.cols) |->
                        <<(i - 1) \div b.cols, (i - 1) % b.cols>>]
seatKeys(e) == IF e.type = "table" THEN TableSeatKeys(e) ELSE BlockSeatKeys(e)

Values(f) == {f[k] : k \in DOMAIN f}

buildAssignedSet(ts, bs) ==
    UNION ({Values(ts[i].assignments) : i \in DOMAIN ts}
           \cup {Values(bs[i].assignments) : i \in DOMAIN bs})

assigned == buildAssignedSet(tables, chairBlocks)

\* ------------------------------------------------------ coordinate transform

BaseScale ==
    Max(MIN_SCALE, Min((CANVAS_W - CANVAS_MARGIN) \div roomWidth,
                       (CANVAS_H - CANVAS_MARGIN) \div roomHeight))
\* base * zoom / 100 is a whole number of pixels per foot for every zoom level
\* of the initial room (base 12, zoom a multiple of 25)
ScaleAt(zoom) == IF zoom = ZOOM_FIT THEN BaseScale ELSE (BaseScale * zoom) \div 100
scale == ScaleAt(zoomLevel)
offsetX == (CANVAS_W - roomWidth * scale) \div 2 + panX
offsetY == (CANVAS_H - roomHeight * scale) \div 2 + panY
\* px / scale, in units
pxToFt(px) == (px * UNIT) \div scale

\* canvas x of world x, whole pixels only
CanvasX_WholePixel(u) == (offsetX + (u * scale) \div UNIT) * 20 * UNIT

\* offsetX + x * scale and offsetY + y * scale of the renderer, and the way
\* back (mx - offsetX) / scale of the pointer handlers, on pixels scaled by
\* 20 * UNIT (PXK below) so that fractions of a pixel are kept
CanvasX(u) == offsetX * 20 * UNIT + u * scale * 20
CanvasY(u) == offsetY * 20 * UNIT + u * scale * 20
WorldX(q) == ((q - offsetX * 20 * UNIT) * UNIT) \div (scale * 20 * UNIT)
WorldY(q) == ((q - offsetY * 20 * UNIT) * UNIT) \div (scale * 20 * UNIT)

\* --------------------------------------------------------------- snap engine

snap(v) ==
    IF snapEnabled /\ gridSize > 0
    THEN MathRound(v, Ft(gridSize)) * Ft(gridSize)
    ELSE v

\* snapEntityPos returning the snapped top-left corner for the boxed kinds
snapEntityPos_TopLeft(rawX, rawY, entity, eType) ==
    IF ~snapEnabled \/ gridSize <= 0 THEN [x |-> rawX, y |-> rawY]
    ELSE IF eType = "table" /\ entity.tableType = "round"
         THEN [x |-> snap(rawX), y |-> snap(rawY)]
    ELSE IF eType = "block" THEN [x |-> snap(rawX), y |-> snap(rawY)]
    ELSE [x |-> snap(rawX - entity.widthFt \div 2), y |-> snap(rawY - entity.heightFt \div 2)]

snapEntityPos(rawX, rawY, entity, eType) ==
    IF ~snapEnabled \/ gridSize <= 0 THEN [x |-> rawX, y |-> rawY]
    ELSE IF eType = "table" /\ entity.tableType = "round"
         THEN [x |-> snap(rawX), y |-> snap(rawY)]
    ELSE IF eType = "block" THEN [x |-> snap(rawX), y |-> snap(rawY)]
    ELSE LET w == entity.widthFt
             h == entity.heightFt
             \* w / 2 and h / 2 are exact in units for the sizes the model uses
             tlx == snap(rawX - w \div 2)
             tly == snap(rawY - h \div 2)
         IN  [x |-> tlx + w \div 2, y |-> tly + h \div 2]

\* --------------------------------------------------------------- hit tester

\* Pixel quantities are compared exactly, scaled by PXK: a canvas pixel x is
\* Px(x), a length of u units is FtPx(u) pixels, and k * scale * PXK is exact for
\* the factors 0.75 and 0.35 of the source.
PXK == 20 * UNIT
Px(x) == x * PXK
FtPx(u) == u * scale * 20
SeatRadiusPx == 15 * scale * UNIT        \* 0.75 * scale

LastIndex(s, Hit(_)) ==
    LET S == {i \in 1..Len(s) : Hit(s[i])}
    IN  IF S = {} THEN 0 ELSE CHOOSE i \in S : \A j \in S : j <= i

isSelected(entity) ==
    IF Len(selectedItems) > 0
    THEN \E i \in 1..Len(selectedItems) :
            selectedItems[i].type = entity.type /\ selectedItems[i].item.id = entity.id
    ELSE IF selectedItem # NULL
         THEN selectedItem.type = entity.type /\ selectedItem.item.id = entity.id
         ELSE FALSE

\* corner: 0=TL, 1=TR, 2=BL, 3=BR
HandleCorner(e, c) ==
    LET cx == Px(offsetX) + FtPx(e.x)
        cy == Px(offsetY) + FtPx(e.y)
        hw == FtPx(e.widthFt) \div 2
        hh == FtPx(e.heightFt) \div 2
    IN  [hx |-> IF c \in {0, 2} THEN cx - hw ELSE cx + hw,
         hy |-> IF c \in {0, 1} THEN cy - hh ELSE cy + hh]

HandleHit(x, y, e, c) ==
    LET hs == Max(Px(6), 7 * scale * UNIT)       \* max(6, scale * 0.35)
        hitR == hs \div 2 + Px(4)
        h == HandleCorner(e, c)
    IN  /\ Px(x) >= h.hx - hitR /\ Px(x) <= h.hx + hitR
        /\ Px(y) >= h.hy - hitR /\ Px(y) <= h.hy + hitR

\* resizeHandleHitTest over every unlocked venue element, selected or not
resizeHandleHitTest_Unselected(x, y) ==
    LET S == {i \in DOMAIN venueElements :
                 /\ ~venueElements[i].locked
                 /\ \E c \in 0..3 : HandleHit(x, y, venueElements[i], c)}
        i == IF S = {} THEN 0 ELSE CHOOSE k \in S : \A j \in S : j <= k
    IN  IF i = 0 THEN NULL
        ELSE [type |-> "resize", entity |-> venueElements[i],
              corner |-> CHOOSE c \in 0..3 :
                            /\ HandleHit(x, y, venueElements[i], c)
                            /\ \A d \in 0..3 : HandleHit(x, y, venueElements[i], d) => c <= d]

resizeHandleHitTest(x, y) ==
    LET Hit(e) == ~e.locked /\ isSelected(e) /\ \E c \in 0..3 : HandleHit(x, y, e, c)
        i == LastIndex(venueElements, Hit)
    IN  IF i = 0 THEN NULL
        ELSE [type |-> "resize", entity |-> venueElements[i],
              corner |-> CHOOSE c \in 0..3 :
                            /\ HandleHit(x, y, venueElements[i], c)
                            /\ \A d \in 0..3 : HandleHit(x, y, venueElements[i], d) => c <= d]

TableBodyHit(x, y, t) ==
    LET cx == Px(offsetX) + FtPx(t.x)
        cy == Px(offsetY) + FtPx(t.y)
        dx == Px(x) - cx
        dy == Px(y) - cy
    IN  IF t.tableType = "round"
        THEN LET r == FtPx(t.widthFt) \div 2 + SeatRadiusPx + Px(5)
             \* Math.hypot(x - cx, y - cy) < r
             IN  Abs(dx) < r /\ Abs(dy) < r /\ dx * dx + dy * dy < r * r
        ELSE LET hw == FtPx(t.widthFt) \div 2 + SeatRadiusPx + Px(5)
                 hh == FtPx(t.heightFt) \div 2 + SeatRadiusPx + Px(5)
             IN  /\ Px(x) >= cx - hw /\ Px(x) <= cx + hw
                 /\ Px(y) >= cy - hh /\ Px(y) <= cy + hh

BlockBodyHit(x, y, b) ==
    LET dims == getBlockDimensions(b)
        bx == Px(offsetX) + FtPx(b.x)
        by == Px(offsetY) + FtPx(b.y)
        bw == FtPx(dims.widthFt)
        bh == FtPx(dims.heightFt)
    IN  /\ Px(x) >= bx - Px(5) /\ Px(x) <= bx + bw + Px(5)
        /\ Px(y) >= by - Px(15) /\ Px(y) <= by + bh + Px(5)

VenueBodyHit(x, y, e) ==
    LET ex == Px(offsetX) + FtPx(e.x)
        ey == Px(offsetY) + FtPx(e.y)
        hw == FtPx(e.widthFt) \div 2
        hh == FtPx(e.heightFt) \div 2
    IN  /\ Px(x) >= ex - hw /\ Px(x) <= ex + hw
        /\ Px(y) >= ey - hh /\ Px(y) <= ey + hh

\* hitTest returning the entity added first among those of a kind under the pixel
hitTest_FirstAdded(x, y) ==
    LET T == {i \in DOMAIN tables : TableBodyHit(x, y, tables[i])}
        B == {i \in DOMAIN chairBlocks : BlockBodyHit(x, y, chairBlocks[i])}
        V == {i \in DOMAIN venueElements : VenueBodyHit(x, y, venueElements[i])}
        First(S) == CHOOSE i \in S : \A j \in S : i <= j
    IN  IF T # {} THEN [type |-> "table", item |-> tables[First(T)]]
        ELSE IF B # {} THEN [type |-> "block", item |-> chairBlocks[First(B)]]
        ELSE IF V # {} THEN [type |-> "venue", item |-> venueElements[First(V)]]
        ELSE NULL

\* [type, item] of the entity under the pixel, or NULL
hitTest(x, y) ==
    LET TH(t) == TableBodyHit(x, y, t)
        BH(b) == BlockBodyHit(x, y, b)
        VH(e) == VenueBodyHit(x, y, e)
        ti == LastIndex(tables, TH)
        bi == LastIndex(chairBlocks, BH)
        vi == LastIndex(venueElements, VH)
    IN  IF ti # 0 THEN [type |-> "table", item |-> tables[ti]]
        ELSE IF bi # 0 THEN [type |-> "block", item |-> chairBlocks[bi]]
        ELSE IF vi # 0 THEN [type |-> "venue", item |-> venueElements[vi]]
        ELSE NULL

\* ------------------------------------------------------------ seat geometry

\* Math.max(3, scale * 0.2) pixels
SeatGapPx == Max(Px(3), Px(scale) \div 5)

\* spread(n, halfLen) of getRectSeatPositions: the offsets of n seats along a
\* side of half length halfLen pixels, each an exact fraction <<num, den>>.
spread(n, halfLen) ==
    IF n <= 0 THEN <<>>
    ELSE IF n = 1 THEN << <<0, 1>> >>
    ELSE LET pad == Min(20 * SeatRadiusPx + 14 * SeatGapPx, 5 * halfLen)   \* x 20
             span == 40 * halfLen - 2 * pad                               \* x 20
         IN  [k \in 1..n |-> <<(pad - 20 * halfLen) * (n - 1) + (k - 1) * span,
                               20 * (n - 1)>>]

\* one push per offset: the seats of the first side only
SidePairs_OneSide(along, far, alongIsX) ==
    [k \in 1..Len(along) |->
        IF alongIsX THEN <<along[k], <<-far, 1>>>> ELSE <<<<-far, 1>>, along[k]>>]

\* for (const d of along) { push(first side); push(opposite side) }
SidePairs(along, far, alongIsX) ==
    [k \in 1..(2 * Len(along)) |->
        LET d == along[(k + 1) \div 2]
            off == IF k % 2 = 1 THEN <<-far, 1>> ELSE <<far, 1>>
        IN  IF alongIsX THEN <<d, off>> ELSE <<off, d>>]

\* [dx, dy] of every seat of a rectangular table, relative to its centre
getRectSeatPositions(t) ==
    LET hw == FtPx(t.widthFt) \div 2
        hh == FtPx(t.heightFt) \div 2
    IN  IF t.orientation = "horizontal"
        THEN SidePairs(spread(t.seats, hw), hh + SeatRadiusPx + SeatGapPx, TRUE)
             \o SidePairs(spread(t.endSeats, hh), hw + SeatRadiusPx + SeatGapPx, FALSE)
        ELSE SidePairs(spread(t.seats, hh), hw + SeatRadiusPx + SeatGapPx, FALSE)
             \o SidePairs(spread(t.endSeats, hw), hh + SeatRadiusPx + SeatGapPx, TRUE)

\* Seat i of a round table, in polar form about the centre: at distance d, at
\* the angle 2 * pi * i / seats - pi / 2.
RoundSeatPositions(t) ==
    [k \in 1..Max(t.seats, 0) |->
        [turn |-> <<k - 1, t.seats>>,
         d |-> FtPx(t.widthFt) \div 2 + SeatRadiusPx + SeatGapPx]]

TableSeatPositions(t) ==
    IF t.tableType = "round" THEN RoundSeatPositions(t)
    ELSE SubSeq(getRectSeatPositions(t), 1,
                Min(Len(getRectSeatPositions(t)), getTableTotalSeats(t)))

\* the chair centre of seat (r, c) with rows and columns exchanged
BlockSeatCentre_Transposed(b, r, c) ==
    [x |-> Px(offsetX) + FtPx(b.x) + ((2 * r + 1) * FtPx(getBlockChairSpacing(b))) \div 2,
     y |-> Px(offsetY) + FtPx(b.y) + ((2 * c + 1) * FtPx(getBlockChairSpacing(b))) \div 2]

\* cx2 = bx + (c + 0.5) * cs, cy2 = by + (r + 0.5) * cs
BlockSeatCentre(b, r, c) ==
    [x |-> Px(offsetX) + FtPx(b.x) + ((2 * c + 1) * FtPx(getBlockChairSpacing(b))) \div 2,
     y |-> Px(offsetY) + FtPx(b.y) + ((2 * r + 1) * FtPx(getBlockChairSpacing(b))) \div 2]

\* the chairs of a block in the order of the two loops: rows, then columns
BlockSeatPositions(b) ==
    [k \in 1..(Max(b.rows, 0) * Max(b.cols, 0)) |->
        LET r == (k - 1) \div b.cols
            c == (k - 1) % b.cols
        IN  [key |-> <<r, c>>, at |-> BlockSeatCentre(b, r, c)]]

\* the dashed border of a block: strokeRect(x, y, w, h)
BlockBorder(b) ==
    [x |-> Px(offsetX) + FtPx(b.x), y |-> Px(offsetY) + FtPx(b.y),
     w |-> FtPx(getBlockDimensions(b).widthFt), h |-> FtPx(getBlockDimensions(b).heightFt)]

\* ------------------------------------------------------------- undo / redo

Snapshot ==
    [tables |-> tables, chairBlocks |-> chairBlocks, venueElements |-> venueElements,
     attendees |-> attendees, disabledAttendees |-> disabledAttendees]

Push(stack, shot) ==
    LET s == Append(stack, shot)
    IN  IF Len(s) > UNDO_LIMIT THEN Tail(s) ELSE s

\* saveUndo as a function of the stack it pushes onto; it also empties redoStack
saveUndo(stack) == Push(stack, Snapshot)

\* Room on the explored undo stack for n more checkpoints.
CanPush(n) == Len(undoStack) + n <= MaxUndo

undo ==
    /\ Len(undoStack) > 0
    /\ redoStack' = Push(redoStack, Snapshot)
    /\ LET prev == undoStack[Len(undoStack)]
       IN  /\ tables' = prev.tables
           /\ chairBlocks' = prev.chairBlocks
           /\ venueElements' = prev.venueElements
           /\ attendees' = prev.attendees
           /\ disabledAttendees' = prev.disabledAttendees
    /\ undoStack' = SubSeq(undoStack, 1, Len(undoStack) - 1)
    /\ lastOp' = [op |-> "undo"]
    /\ UNCHANGED <<roomVars, idVars, selVars, snapVars, ghostEntity, gestureVars,
                   panVars, seatDragVars, button, gest>>

\* redo that restores the undone state without recording the one it leaves
redo_NoCheckpoint ==
    /\ Len(redoStack) > 0
    /\ LET next == redoStack[Len(redoStack)]
       IN  /\ tables' = next.tables
           /\ chairBlocks' = next.chairBlocks
           /\ venueElements' = next.venueElements
           /\ attendees' = next.attendees
           /\ disabledAttendees' = next.disabledAttendees
    /\ redoStack' = SubSeq(redoStack, 1, Len(redoStack) - 1)
    /\ lastOp' = [op |-> "redo"]
    /\ UNCHANGED <<roomVars, idVars, selVars, snapVars, ghostEntity, gestureVars,
                   panVars, seatDragVars, undoStack, button, gest>>

redo ==
    /\ Len(redoStack) > 0
    /\ undoStack' = Push(undoStack, Snapshot)
    /\ LET next == redoStack[Len(redoStack)]
       IN  /\ tables' = next.tables
           /\ chairBlocks' = next.chairBlocks
           /\ venueElements' = next.venueElements
           /\ attendees' = next.attendees
           /\ disabledAttendees' = next.disabledAttendees
    /\ redoStack' = SubSeq(redoStack, 1, Len(redoStack) - 1)
    /\ lastOp' = [op |-> "redo"]
    /\ UNCHANGED <<roomVars, idVars, selVars, snapVars, ghostEntity, gestureVars,
                   panVars, seatDragVars, button, gest>>

\* ----------------------------------------------------------- initial state

IdleDragRef ==
    [startX |-> 0, startY |-> 0, entity |-> NULL, origX |-> 0, origY |-> 0,
     multiDrag |-> <<>>, hasMoved |-> FALSE]
IdlePanRef ==
    [active |-> FALSE, startX |-> 0, startY |-> 0, origPanX |-> 0, origPanY |-> 0,
     hasMoved |-> FALSE]
IdleGest == [kind |-> "none", startX |-> 0, startY |-> 0, exceeded |-> FALSE, far |-> FALSE]

InitView ==
    /\ selectedItem = NULL /\ selectedItems = <<>>
    /\ gridSize = INIT_GRID_SIZE /\ snapEnabled = TRUE
    /\ ghostEntity = NULL
    /\ dragging = FALSE /\ dragRef = IdleDragRef /\ panRef = IdlePanRef
    /\ resizeRef = NULL
    /\ panX = 0 /\ panY = 0 /\ zoomLevel = ZOOM_FIT
    /\ dragAttendee = <<>> /\ popupDragSeat = NULL /\ selectedAttendee = <<>>
    /\ undoStack = <<>> /\ redoStack = <<>>
    /\ button = "up" /\ lastOp = [op |-> "init"] /\ gest = IdleGest

Init ==
    /\ roomWidth = INIT_ROOM_WIDTH /\ roomHeight = INIT_ROOM_HEIGHT
    /\ tables = <<>> /\ chairBlocks = <<>> /\ venueElements = <<>>
    /\ attendees = <<>> /\ disabledAttendees = {}
    /\ nextTableId = 1 /\ nextBlockId = 1 /\ nextElementId = 1
    /\ InitView


\* ------------------------------------------------------- environment inputs

\* Parameters the add dialog is confirmed with (within the ranges its inputs allow).
AddChoices ==
    { [entityType |-> "round_table", seats |-> 4, diameter |-> 4],
      [entityType |-> "dj_booth", widthFt |-> 6, heightFt |-> 4] }

\* ------------------------------------------------------------------ actions

Collection(type) ==
    IF type = "table" THEN tables
    ELSE IF type = "block" THEN chairBlocks ELSE venueElements

NextId(type) ==
    IF type = "table" THEN nextTableId
    ELSE IF type = "block" THEN nextBlockId ELSE nextElementId

\* prev.map(e => e.id === id ? F(e) : e)
MapById(coll, id, F(_)) ==
    [i \in 1..Len(coll) |-> IF coll[i].id = id THEN F(coll[i]) ELSE coll[i]]

\* coll.find(e => e.id === id) || dflt
FindById(coll, id, dflt) ==
    LET S == {i \in 1..Len(coll) : coll[i].id = id}
    IN  IF S = {} THEN dflt ELSE coll[CHOOSE i \in S : \A j \in S : i <= j]

confirmAdd(params) ==
    /\ button = "up"
    /\ LET cx == Ft(roomWidth) \div 2
           cy == Ft(roomHeight) \div 2
       IN  ghostEntity' =
             CASE params.entityType = "round_table" ->
                    createTable(nextTableId, cx, cy, "round", params.seats,
                                Ft(params.diameter), Ft(params.diameter), "horizontal", 0)
               [] params.entityType = "rect_table" ->
                    createTable(nextTableId, cx, cy, "rect", params.seats,
                                IF params.orientation = "horizontal"
                                THEN Ft(params.length) ELSE Ft(params.width),
                                IF params.orientation = "horizontal"
                                THEN Ft(params.width) ELSE Ft(params.length),
                                params.orientation, params.endSeats)
               [] params.entityType = "chair_block" ->
                    createChairBlock(nextBlockId, cx, cy, params.rows, params.cols,
                                     params.spacing)
               [] OTHER ->
                    createVenueElement(nextElementId, cx, cy, Ft(params.widthFt),
                                       Ft(params.heightFt))
    /\ lastOp' = [op |-> "confirmAdd"]
    /\ UNCHANGED <<roomVars, domainVars, idVars, selVars, snapVars, gestureVars,
                   panVars, seatDragVars, stackVars, button, gest>>

\* The edit dialog, opened on the selected entity (editEntity) and confirmed with
\* params of that entity's kind.
confirmEdit(params) ==
    /\ button = "up"
    /\ selectedItem # NULL
    /\ Len(undoStack) < MaxSeatOps
    /\ LET type == selectedItem.type
           entity == selectedItem.item
           entityType ==
               IF type = "table"
               THEN (IF entity.tableType = "round" THEN "round_table" ELSE "rect_table")
               ELSE IF type = "block" THEN "chair_block" ELSE "venue"
           orient == IF entityType = "rect_table" THEN params.orientation ELSE "horizontal"
           Edit(e) ==
               CASE entityType = "round_table" ->
                      [e EXCEPT !.seats = params.seats,
                                !.widthFt = Ft(params.diameter), !.heightFt = Ft(params.diameter)]
                 [] entityType = "rect_table" ->
                      [e EXCEPT !.seats = params.seats,
                                !.widthFt = IF orient = "horizontal"
                                            THEN Ft(params.length) ELSE Ft(params.width),
                                !.heightFt = IF orient = "horizontal"
                                             THEN Ft(params.width) ELSE Ft(params.length),
                                !.orientation = orient, !.endSeats = params.endSeats]
                 [] entityType = "chair_block" ->
                      [e EXCEPT !.rows = params.rows, !.cols = params.cols,
                                !.spacing = params.spacing]
                 [] OTHER ->
                      [e EXCEPT !.widthFt = Ft(params.widthFt), !.heightFt = Ft(params.heightFt)]
           Edited(coll) ==
               [i \in 1..Len(coll) |-> IF coll[i].id = entity.id THEN Edit(coll[i]) ELSE coll[i]]
       IN  /\ params.entityType = entityType
           /\ tables' = IF type = "table" THEN Edited(tables) ELSE tables
           /\ chairBlocks' = IF type = "block" THEN Edited(chairBlocks) ELSE chairBlocks
           /\ venueElements' = IF type = "venue" THEN Edited(venueElements) ELSE venueElements
    /\ undoStack' = saveUndo(undoStack) /\ redoStack' = <<>>
    /\ selectedItem' = NULL
    /\ lastOp' = [op |-> "confirmEdit"]
    /\ UNCHANGED <<roomVars, attendees, disabledAttendees, idVars, selectedItems, snapVars,
                   ghostEntity, gestureVars, panVars, seatDragVars, button, gest>>

cancelGhost_Checkpoint ==
    /\ CanPush(1)
    /\ ghostEntity' = NULL
    /\ undoStack' = saveUndo(undoStack) /\ redoStack' = <<>>
    /\ lastOp' = [op |-> "cancelGhost", ghost |-> ghostEntity # NULL]
    /\ UNCHANGED <<roomVars, domainVars, idVars, selVars, snapVars, gestureVars,
                   panVars, seatDragVars, button, gest>>

\* Escape
cancelGhost ==
    /\ IF ghostEntity # NULL
       THEN ghostEntity' = NULL /\ UNCHANGED selVars
       ELSE selectedItem' = NULL /\ selectedItems' = <<>> /\ UNCHANGED ghostEntity
    /\ lastOp' = [op |-> "cancelGhost", ghost |-> ghostEntity # NULL]
    /\ UNCHANGED <<roomVars, domainVars, idVars, snapVars, gestureVars,
                   panVars, seatDragVars, stackVars, button, gest>>

\* right-click on the canvas
handleCanvasContextMenu ==
    /\ ghostEntity' = NULL
    /\ lastOp' = [op |-> "contextMenu", ghost |-> ghostEntity # NULL]
    /\ UNCHANGED <<roomVars, domainVars, idVars, selVars, snapVars, gestureVars,
                   panVars, seatDragVars, stackVars, button, gest>>

\* handleCanvasMouseDown, ghost branch: commit the ghost where the pointer is
MouseDownGhost(x, y) ==
    LET raw == [x |-> pxToFt(x - offsetX), y |-> pxToFt(y - offsetY)]
        snapped == snapEntityPos(raw.x, raw.y, ghostEntity, ghostEntity.type)
        placed == [ghostEntity EXCEPT !.x = snapped.x, !.y = snapped.y]
    IN  /\ CanPush(1)
        /\ Len(Collection(ghostEntity.type)) < MaxPerKind
        /\ NextId(ghostEntity.type) <= MaxId
        /\ undoStack' = saveUndo(undoStack)
        /\ redoStack' = <<>>
        /\ IF ghostEntity.type = "table"
           THEN /\ tables' = Append(tables, placed)
                /\ nextTableId' = nextTableId + 1
                /\ UNCHANGED <<chairBlocks, venueElements, nextBlockId, nextElementId>>
           ELSE IF ghostEntity.type = "block"
           THEN /\ chairBlocks' = Append(chairBlocks, placed)
                /\ nextBlockId' = nextBlockId + 1
                /\ UNCHANGED <<tables, venueElements, nextTableId, nextElementId>>
           ELSE /\ venueElements' = Append(venueElements, placed)
                /\ nextElementId' = nextElementId + 1
                /\ UNCHANGED <<tables, chairBlocks, nextTableId, nextBlockId>>
        /\ ghostEntity' = NULL
        /\ gest' = [kind |-> "ghost", startX |-> x, startY |-> y, exceeded |-> FALSE, far |-> FALSE]
        /\ UNCHANGED <<attendees, disabledAttendees, selVars, gestureVars>>

\* handleCanvasMouseDown, resize branch
MouseDownResize(x, y, resizeHit) ==
    LET ve == resizeHit.entity
        corner == resizeHit.corner
        hw == ve.widthFt \div 2
        hh == ve.heightFt \div 2
        ax == IF corner \in {0, 2} THEN ve.x + hw ELSE ve.x - hw
        ay == IF corner \in {0, 1} THEN ve.y + hh ELSE ve.y - hh
    IN  /\ CanPush(1)
        /\ undoStack' = saveUndo(undoStack)
        /\ redoStack' = <<>>
        /\ resizeRef' = [type |-> "resize", entityId |-> ve.id, corner |-> corner,
                         anchorX |-> ax, anchorY |-> ay,
                         origW |-> ve.widthFt, origH |-> ve.heightFt]
        /\ dragging' = TRUE
        /\ gest' = [kind |-> "resize", startX |-> x, startY |-> y, exceeded |-> FALSE, far |-> FALSE]
        /\ UNCHANGED <<domainVars, idVars, selVars, ghostEntity, dragRef, panRef>>

SameItem(si, type, item) == si.type = type /\ si.item.id = item.id

\* the entity-hit branch taking any selected entity for a member of a group
MouseDownHit_AnySelection(x, y, ctrlHeld, hit) ==
    LET type == hit.type
        item == hit.item
    IN  /\ IF ctrlHeld
           THEN /\ selectedItems' =
                     IF \E i \in 1..Len(selectedItems) : SameItem(selectedItems[i], type, item)
                     THEN LET Other(si) == ~SameItem(si, type, item)
                          IN  SelectSeq(selectedItems, Other)
                     ELSE Append(selectedItems, [type |-> type, item |-> item])
                /\ gest' = [kind |-> "ctrl", startX |-> x, startY |-> y, exceeded |-> FALSE, far |-> FALSE]
                /\ UNCHANGED <<selectedItem, gestureVars>>
           ELSE IF \E i \in 1..Len(selectedItems) : SameItem(selectedItems[i], type, item)
           THEN /\ dragRef' =
                     [startX |-> x, startY |-> y, entity |-> NULL, origX |-> 0, origY |-> 0,
                      multiDrag |->
                        [i \in 1..Len(selectedItems) |->
                           LET si == selectedItems[i]
                               latest == FindById(Collection(si.type), si.item.id, si.item)
                           IN  [type |-> si.type, id |-> si.item.id,
                                origX |-> latest.x, origY |-> latest.y]],
                      hasMoved |-> FALSE]
                /\ dragging' = TRUE
                /\ gest' = [kind |-> "multi", startX |-> x, startY |-> y, exceeded |-> FALSE, far |-> FALSE]
                /\ UNCHANGED <<selVars, panRef, resizeRef>>
           ELSE /\ selectedItem' = [type |-> type, item |-> item]
                /\ selectedItems' = <<>>
                /\ dragRef' = [startX |-> x, startY |-> y, entity |-> item,
                               origX |-> item.x, origY |-> item.y,
                               multiDrag |-> <<>>, hasMoved |-> FALSE]
                /\ dragging' = TRUE
                /\ gest' = [kind |-> "single", startX |-> x, startY |-> y, exceeded |-> FALSE, far |-> FALSE]
                /\ UNCHANGED <<panRef, resizeRef>>
        /\ UNCHANGED <<domainVars, idVars, ghostEntity, stackVars>>

\* handleCanvasMouseDown, an entity is hit
MouseDownHit(x, y, ctrlHeld, hit) ==
    LET type == hit.type
        item == hit.item
        isInMulti == /\ Len(selectedItems) > 1
                     /\ \E i \in 1..Len(selectedItems) : SameItem(selectedItems[i], type, item)
    IN  /\ IF ctrlHeld
           THEN /\ selectedItems' =
                     IF \E i \in 1..Len(selectedItems) : SameItem(selectedItems[i], type, item)
                     THEN LET Other(si) == ~SameItem(si, type, item)
                          IN  SelectSeq(selectedItems, Other)
                     ELSE Append(selectedItems, [type |-> type, item |-> item])
                /\ gest' = [kind |-> "ctrl", startX |-> x, startY |-> y, exceeded |-> FALSE, far |-> FALSE]
                /\ UNCHANGED <<selectedItem, gestureVars>>
           ELSE IF isInMulti
           THEN /\ dragRef' =
                     [startX |-> x, startY |-> y, entity |-> NULL, origX |-> 0, origY |-> 0,
                      multiDrag |->
                        [i \in 1..Len(selectedItems) |->
                           LET si == selectedItems[i]
                               latest == FindById(Collection(si.type), si.item.id, si.item)
                           IN  [type |-> si.type, id |-> si.item.id,
                                origX |-> latest.x, origY |-> latest.y]],
                      hasMoved |-> FALSE]
                /\ dragging' = TRUE
                /\ gest' = [kind |-> "multi", startX |-> x, startY |-> y, exceeded |-> FALSE, far |-> FALSE]
                /\ UNCHANGED <<selVars, panRef, resizeRef>>
           ELSE /\ selectedItem' = [type |-> type, item |-> item]
                /\ selectedItems' = <<>>
                /\ dragRef' = [startX |-> x, startY |-> y, entity |-> item,
                               origX |-> item.x, origY |-> item.y,
                               multiDrag |-> <<>>, hasMoved |-> FALSE]
                /\ dragging' = TRUE
                /\ gest' = [kind |-> "single", startX |-> x, startY |-> y, exceeded |-> FALSE, far |-> FALSE]
                /\ UNCHANGED <<panRef, resizeRef>>
        /\ UNCHANGED <<domainVars, idVars, ghostEntity, stackVars>>

\* handleCanvasMouseDown, empty space: a pan may start
MouseDownPan(x, y) ==
    /\ panRef' = [active |-> TRUE, startX |-> x, startY |-> y,
                  origPanX |-> panX, origPanY |-> panY, hasMoved |-> FALSE]
    /\ dragging' = TRUE
    /\ gest' = [kind |-> "pan", startX |-> x, startY |-> y, exceeded |-> FALSE, far |-> FALSE]
    /\ UNCHANGED <<domainVars, idVars, selVars, ghostEntity, dragRef, resizeRef, stackVars>>

handleCanvasMouseDown_HitFirst(x, y, ctrlHeld) ==
    /\ button = "up"
    /\ button' = "down"
    /\ lastOp' = [op |-> "mouseDown", ctrlHeld |-> ctrlHeld]
    /\ IF hitTest(x, y) # NULL THEN MouseDownHit(x, y, ctrlHeld, hitTest(x, y))
       ELSE IF ghostEntity # NULL THEN MouseDownGhost(x, y)
       ELSE MouseDownPan(x, y)
    /\ UNCHANGED <<roomVars, snapVars, panVars, seatDragVars>>

handleCanvasMouseDown(x, y, ctrlHeld) ==
    /\ button = "up"
    /\ button' = "down"
    /\ lastOp' = [op |-> "mouseDown", ctrlHeld |-> ctrlHeld]
    /\ IF ghostEntity # NULL THEN MouseDownGhost(x, y)
       ELSE IF dragAttendee # <<>> \/ popupDragSeat # NULL
       THEN /\ gest' = [kind |-> "none", startX |-> x, startY |-> y, exceeded |-> FALSE, far |-> FALSE]
            /\ UNCHANGED <<domainVars, idVars, selVars, ghostEntity, gestureVars, stackVars>>
       ELSE IF resizeHandleHitTest(x, y) # NULL
       THEN MouseDownResize(x, y, resizeHandleHitTest(x, y))
       ELSE IF hitTest(x, y) # NULL
       THEN MouseDownHit(x, y, ctrlHeld, hitTest(x, y))
       ELSE MouseDownPan(x, y)
    /\ UNCHANGED <<roomVars, snapVars, panVars, seatDragVars>>


OverThreshold_Zero(d) == Abs(d) > 0

\* |d| > 0.5 for a length d in units
OverThreshold(d) == Abs(d) * DRAG_THRESHOLD_DEN > Ft(DRAG_THRESHOLD_NUM)

Crossing_NoLatch(hasMoved, dx, dy) == OverThreshold(dx) \/ OverThreshold(dy)

\* !dragRef.current.hasMoved && (Math.abs(dx) > 0.5 || Math.abs(dy) > 0.5)
Crossing(hasMoved, dx, dy) == ~hasMoved /\ (OverThreshold(dx) \/ OverThreshold(dy))

Clamp(lo, hi, v) == Max(lo, Min(hi, v))

\* handleCanvasMouseMove, ghost branch
MouseMoveGhost(x, y) ==
    LET raw == [x |-> pxToFt(x - offsetX), y |-> pxToFt(y - offsetY)]
        snapped == snapEntityPos(raw.x, raw.y, ghostEntity, ghostEntity.type)
    IN  /\ ghostEntity' = [ghostEntity EXCEPT !.x = snapped.x, !.y = snapped.y]
        /\ UNCHANGED <<domainVars, gestureVars, panVars, stackVars>>

\* the pan branch with no dead zone around the pointer-down position
MouseMovePan_NoThreshold(x, y) ==
    LET dx == x - panRef.startX
        dy == y - panRef.startY
    IN  /\ Abs(panRef.origPanX + dx) <= MaxPan /\ Abs(panRef.origPanY + dy) <= MaxPan
        /\ panRef' = [panRef EXCEPT !.hasMoved = TRUE]
        /\ panX' = panRef.origPanX + dx /\ panY' = panRef.origPanY + dy
        /\ zoomLevel' = zoomLevel
        /\ UNCHANGED <<domainVars, ghostEntity, dragging, dragRef, resizeRef, stackVars>>

\* handleCanvasMouseMove, pan branch
MouseMovePan(x, y) ==
    LET dx == x - panRef.startX
        dy == y - panRef.startY
        moved == panRef.hasMoved \/ Abs(dx) > PAN_THRESHOLD_PX \/ Abs(dy) > PAN_THRESHOLD_PX
    IN  /\ moved => Abs(panRef.origPanX + dx) <= MaxPan /\ Abs(panRef.origPanY + dy) <= MaxPan
        /\ panRef' = [panRef EXCEPT !.hasMoved = moved]
        /\ IF moved
           THEN /\ panX' = panRef.origPanX + dx /\ panY' = panRef.origPanY + dy
                /\ zoomLevel' = zoomLevel
           ELSE UNCHANGED panVars
        /\ UNCHANGED <<domainVars, ghostEntity, dragging, dragRef, resizeRef, stackVars>>

\* the new side with the floor applied before the snap only
ResizedSide_FloorOnce(d) ==
    LET raw == Max(Ft(MIN_SIZE), Abs(d))
    IN  IF snapEnabled /\ gridSize > 0
        THEN MathRound(raw, Ft(gridSize)) * Ft(gridSize)
        ELSE raw

\* newW, newH of the resize branch: the distance d of the pointer from the
\* anchor along one axis, floored at MIN_SIZE, snapped, and floored again
ResizedSide(d) ==
    LET raw == Max(Ft(MIN_SIZE), Abs(d))
    IN  IF snapEnabled /\ gridSize > 0
        THEN Max(Ft(MIN_SIZE), MathRound(raw, Ft(gridSize)) * Ft(gridSize))
        ELSE raw

\* handleCanvasMouseMove, venue element resize branch
MouseMoveResize(x, y) ==
    LET worldX == pxToFt(x - offsetX)
        worldY == pxToFt(y - offsetY)
        anchorX == resizeRef.anchorX
        anchorY == resizeRef.anchorY
        newW == ResizedSide(worldX - anchorX)
        newH == ResizedSide(worldY - anchorY)
        newCx == anchorX + (IF worldX >= anchorX THEN newW \div 2 ELSE -(newW \div 2))
        newCy == anchorY + (IF worldY >= anchorY THEN newH \div 2 ELSE -(newH \div 2))
        Resized(v) == [v EXCEPT !.widthFt = newW, !.heightFt = newH,
                                !.x = newCx, !.y = newCy]
    IN  \* only pointer positions whose half sizes are whole units are explored
        /\ newW % 2 = 0 /\ newH % 2 = 0
        /\ venueElements' = MapById(venueElements, resizeRef.entityId, Resized)
        /\ UNCHANGED <<tables, chairBlocks, attendees, disabledAttendees, ghostEntity,
                       gestureVars, panVars, stackVars>>

\* entries of the multi-drag list of one kind, as the position each id moves to
MultiDragged(coll, type, dx, dy) ==
    [i \in 1..Len(coll) |->
        LET S == {k \in 1..Len(dragRef.multiDrag) :
                     dragRef.multiDrag[k].type = type /\ dragRef.multiDrag[k].id = coll[i].id}
        IN  IF S = {} THEN coll[i]
            ELSE LET it == dragRef.multiDrag[CHOOSE k \in S : \A j \in S : j <= k]
                 IN  [coll[i] EXCEPT !.x = Clamp(0, Ft(roomWidth), it.origX + dx),
                                     !.y = Clamp(0, Ft(roomHeight), it.origY + dy)]]

\* handleCanvasMouseMove, multi-drag branch
MouseMoveMulti(x, y) ==
    LET dx == pxToFt(x - dragRef.startX)
        dy == pxToFt(y - dragRef.startY)
        crossing == Crossing(dragRef.hasMoved, dx, dy)
        moved == dragRef.hasMoved \/ crossing
    IN  /\ crossing => CanPush(1)
        /\ dragRef' = [dragRef EXCEPT !.hasMoved = moved]
        /\ IF crossing
           THEN undoStack' = saveUndo(undoStack) /\ redoStack' = <<>>
           ELSE UNCHANGED stackVars
        /\ IF moved
           THEN /\ tables' = MultiDragged(tables, "table", dx, dy)
                /\ chairBlocks' = MultiDragged(chairBlocks, "block", dx, dy)
                /\ venueElements' = MultiDragged(venueElements, "venue", dx, dy)
           ELSE UNCHANGED <<tables, chairBlocks, venueElements>>
        /\ UNCHANGED <<attendees, disabledAttendees, ghostEntity, dragging, panRef,
                       resizeRef, panVars>>

\* handleCanvasMouseMove, single entity drag branch
MouseMoveSingle(x, y) ==
    LET item == dragRef.entity
        dx == pxToFt(x - dragRef.startX)
        dy == pxToFt(y - dragRef.startY)
        crossing == Crossing(dragRef.hasMoved, dx, dy)
        moved == dragRef.hasMoved \/ crossing
        rawX == Clamp(0, Ft(roomWidth), dragRef.origX + dx)
        rawY == Clamp(0, Ft(roomHeight), dragRef.origY + dy)
        type == selectedItem.type
        snapped == snapEntityPos(rawX, rawY, item, type)
        Moved(e) == [e EXCEPT !.x = snapped.x, !.y = snapped.y]
    IN  IF item.locked
        THEN UNCHANGED <<domainVars, ghostEntity, gestureVars, panVars, stackVars>>
        ELSE /\ crossing => CanPush(1)
             /\ dragRef' = [dragRef EXCEPT !.hasMoved = moved]
             /\ IF crossing
                THEN undoStack' = saveUndo(undoStack) /\ redoStack' = <<>>
                ELSE UNCHANGED stackVars
             /\ IF moved
                THEN IF type = "table"
                     THEN /\ tables' = MapById(tables, item.id, Moved)
                          /\ UNCHANGED <<chairBlocks, venueElements>>
                     ELSE IF type = "block"
                     THEN /\ chairBlocks' = MapById(chairBlocks, item.id, Moved)
                          /\ UNCHANGED <<tables, venueElements>>
                     ELSE /\ venueElements' = MapById(venueElements, item.id, Moved)
                          /\ UNCHANGED <<tables, chairBlocks>>
                ELSE UNCHANGED <<tables, chairBlocks, venueElements>>
             /\ UNCHANGED <<attendees, disabledAttendees, ghostEntity, dragging, panRef,
                            resizeRef, panVars>>

handleCanvasMouseMove(x, y) ==
    /\ lastOp' = [op |-> "mouseMove", x |-> x, y |-> y]
    /\ gest' = IF button = "down"
               THEN [gest EXCEPT !.exceeded =
                        \/ gest.exceeded
                        \/ 2 * Abs(pxToFt(x - gest.startX)) > UNIT
                        \/ 2 * Abs(pxToFt(y - gest.startY)) > UNIT,
                                 !.far =
                        \/ gest.far
                        \/ Abs(x - gest.startX) > PAN_THRESHOLD_PX
                        \/ Abs(y - gest.startY) > PAN_THRESHOLD_PX]
               ELSE gest
    /\ IF ghostEntity # NULL THEN MouseMoveGhost(x, y)
       ELSE IF panRef.active THEN MouseMovePan(x, y)
       ELSE IF resizeRef # NULL THEN MouseMoveResize(x, y)
       ELSE IF dragging /\ dragRef.multiDrag # <<>> THEN MouseMoveMulti(x, y)
       ELSE IF dragging /\ dragRef.entity # NULL /\ selectedItem # NULL
       THEN MouseMoveSingle(x, y)
       ELSE UNCHANGED <<domainVars, ghostEntity, gestureVars, panVars, stackVars>>
    /\ UNCHANGED <<roomVars, idVars, selVars, snapVars, seatDragVars, button>>


\* ------------------------------------------------------ seat assignment core

\* The state the queued updaters of one handler run over. Guards read the
\* rendered state (the unprimed variables); updaters transform this record.
Rendered ==
    [tables |-> tables, chairBlocks |-> chairBlocks,
     undoStack |-> undoStack, redoStack |-> redoStack]

saveUndoIn(w) ==
    [w EXCEPT !.undoStack = Push(w.undoStack, Snapshot), !.redoStack = <<>>]

\* prev.map(e => e.id === entityId ? { ...e, assignments: F(e.assignments) } : e)
UpdateAssignments(w, entityType, entityId, F(_)) ==
    LET Upd(e) == [e EXCEPT !.assignments = F(e.assignments)]
    IN  IF entityType = "table"
        THEN [w EXCEPT !.tables = MapById(w.tables, entityId, Upd)]
        ELSE [w EXCEPT !.chairBlocks = MapById(w.chairBlocks, entityId, Upd)]

SetSeat(w, entityType, entityId, seatKey, attIdx) ==
    LET F(a) == With(a, seatKey, attIdx)
    IN  UpdateAssignments(w, entityType, entityId, F)

assignAttendee_NoSeatedCheck(w, entityType, entityId, seatKey, attIdx) ==
    IF attIdx \in disabledAttendees THEN w
    ELSE SetSeat(saveUndoIn(w), entityType, entityId, seatKey, attIdx)

assignAttendee(w, entityType, entityId, seatKey, attIdx) ==
    IF attIdx \in disabledAttendees THEN w
    ELSE IF attIdx \in assigned THEN w
    ELSE SetSeat(saveUndoIn(w), entityType, entityId, seatKey, attIdx)

unassignSeat(w, entityType, entityId, seatKey) ==
    LET F(a) == Without(a, seatKey)
    IN  UpdateAssignments(saveUndoIn(w), entityType, entityId, F)

SwapIn_Copy(a, seatKeyA, seatKeyB) ==
    IF seatKeyA \in DOMAIN a THEN With(a, seatKeyB, a[seatKeyA])
    ELSE IF seatKeyB \in DOMAIN a THEN With(a, seatKeyA, a[seatKeyB])
    ELSE a

SwapIn_OneWay(a, seatKeyA, seatKeyB) ==
    LET hasA == seatKeyA \in DOMAIN a
        hasB == seatKeyB \in DOMAIN a
    IN  IF hasA /\ hasB
        THEN [a EXCEPT ![seatKeyA] = a[seatKeyB], ![seatKeyB] = a[seatKeyA]]
        ELSE IF hasA THEN Without(With(a, seatKeyB, a[seatKeyA]), seatKeyA)
        ELSE a

SwapIn(a, seatKeyA, seatKeyB) ==
    LET hasA == seatKeyA \in DOMAIN a
        hasB == seatKeyB \in DOMAIN a
    IN  IF hasA /\ hasB
        THEN [a EXCEPT ![seatKeyA] = a[seatKeyB], ![seatKeyB] = a[seatKeyA]]
        ELSE IF hasA THEN Without(With(a, seatKeyB, a[seatKeyA]), seatKeyA)
        ELSE IF hasB THEN Without(With(a, seatKeyA, a[seatKeyB]), seatKeyB)
        ELSE a

swapSeats(w, entityType, entityId, seatKeyA, seatKeyB) ==
    IF seatKeyA = seatKeyB THEN w
    ELSE LET F(a) == SwapIn(a, seatKeyA, seatKeyB)
         IN  UpdateAssignments(saveUndoIn(w), entityType, entityId, F)

\* moveSeatToSeat reads attIdx out of its own queued source updater. `eager`
\* says whether that updater has already run when attIdx is tested.
moveSeatToSeat(w, srcType, srcId, srcKey, dstType, dstId, dstKey, eager) ==
    LET w1 == saveUndoIn(w)
        Del(a) == Without(a, srcKey)
        src == FindById(IF srcType = "table" THEN w1.tables ELSE w1.chairBlocks,
                        srcId, NULL)
        found == eager /\ src # NULL /\ srcKey \in DOMAIN src.assignments
        w2 == UpdateAssignments(w1, srcType, srcId, Del)
    IN  IF srcType = dstType /\ srcId = dstId
        THEN swapSeats(w1, srcType, srcId, srcKey, dstKey)
        ELSE IF ~found THEN w2
        ELSE SetSeat(w2, dstType, dstId, dstKey, src.assignments[srcKey])

forceAssignSeat(w, entityType, entityId, seatKey, attIdx) ==
    IF attIdx \in disabledAttendees THEN w
    ELSE SetSeat(saveUndoIn(w), entityType, entityId, seatKey, attIdx)

\* assignNextAvailable taking the open seat found last
assignNextAvailable_LastOpen(w, entityType, entityId, attIdx) ==
    LET entity == FindById(IF entityType = "table" THEN tables ELSE chairBlocks,
                           entityId, NULL)
        keys == seatKeys(entity)
        open == {i \in 1..Len(keys) : keys[i] \notin DOMAIN entity.assignments}
    IN  IF attIdx \in disabledAttendees THEN w
        ELSE IF attIdx \in assigned THEN w
        ELSE IF entity = NULL THEN w
        ELSE IF open = {} THEN w
        ELSE forceAssignSeat(w, entityType, entityId,
                             keys[CHOOSE i \in open : \A j \in open : i >= j], attIdx)

assignNextAvailable(w, entityType, entityId, attIdx) ==
    LET entity == FindById(IF entityType = "table" THEN tables ELSE chairBlocks,
                           entityId, NULL)
        keys == seatKeys(entity)
        open == {i \in 1..Len(keys) : keys[i] \notin DOMAIN entity.assignments}
    IN  IF attIdx \in disabledAttendees THEN w
        ELSE IF attIdx \in assigned THEN w
        ELSE IF entity = NULL THEN w
        ELSE IF open = {} THEN w
        ELSE forceAssignSeat(w, entityType, entityId,
                             keys[CHOOSE i \in open : \A j \in open : i <= j], attIdx)

Commit(w) ==
    /\ Len(w.undoStack) <= MaxSeatOps
    /\ tables' = w.tables /\ chairBlocks' = w.chairBlocks
    /\ undoStack' = w.undoStack /\ redoStack' = w.redoStack


\* What seatHitTest can return for a pointer position: a seat of a table or of a
\* chair block of the rendered layout, or nothing.
SeatInfos ==
    UNION {{[entityType |-> "table", entity |-> tables[i], seatKey |-> seatKeys(tables[i])[j]] :
               j \in DOMAIN seatKeys(tables[i])} : i \in DOMAIN tables} \cup
    UNION {{[entityType |-> "block", entity |-> chairBlocks[i],
             seatKey |-> seatKeys(chairBlocks[i])[j]] :
               j \in DOMAIN seatKeys(chairBlocks[i])} : i \in DOMAIN chairBlocks}

handleCanvasMouseUp(x, y, seatInfo) ==
    /\ button = "down"
    /\ button' = "up"
    /\ lastOp' = IF ~panRef.active /\ dragAttendee # <<>>
                 THEN [op |-> "mouseUp", x |-> x, y |-> y, seatInfo |-> seatInfo]
                 ELSE [op |-> "mouseUp"]
    /\ gest' = IdleGest
    /\ IF panRef.active
       THEN /\ panRef' = IdlePanRef
            /\ dragging' = FALSE
            /\ IF ~panRef.hasMoved
               THEN selectedItem' = NULL /\ selectedItems' = <<>>
               ELSE UNCHANGED selVars
            /\ UNCHANGED <<domainVars, dragRef, resizeRef, seatDragVars, stackVars>>
       ELSE IF dragAttendee # <<>>
       THEN /\ LET attIdx == dragAttendee[1]
                   tableHit == hitTest(x, y)
               IN  IF seatInfo # NULL /\ seatInfo.seatKey \notin DOMAIN seatInfo.entity.assignments
                   THEN Commit(assignAttendee(Rendered, seatInfo.entityType,
                                              seatInfo.entity.id, seatInfo.seatKey, attIdx))
                   ELSE IF tableHit # NULL /\ tableHit.type \in {"table", "block"}
                   THEN Commit(assignNextAvailable(Rendered, tableHit.type,
                                                   tableHit.item.id, attIdx))
                   ELSE UNCHANGED <<tables, chairBlocks, stackVars>>
            /\ dragAttendee' = <<>>
            /\ dragging' = FALSE
            /\ UNCHANGED <<venueElements, attendees, disabledAttendees, selVars,
                           dragRef, panRef, resizeRef, popupDragSeat, selectedAttendee>>
       ELSE IF popupDragSeat # NULL
       THEN /\ IF seatInfo # NULL /\ seatInfo.seatKey \notin DOMAIN seatInfo.entity.assignments
               THEN \E eager \in BOOLEAN :
                       Commit(moveSeatToSeat(Rendered, popupDragSeat.entityType,
                                             popupDragSeat.entityId, popupDragSeat.seatKey,
                                             seatInfo.entityType, seatInfo.entity.id,
                                             seatInfo.seatKey, eager))
               ELSE UNCHANGED <<tables, chairBlocks, stackVars>>
            /\ popupDragSeat' = NULL
            /\ dragging' = FALSE
            /\ UNCHANGED <<venueElements, attendees, disabledAttendees, selVars,
                           dragRef, panRef, resizeRef, dragAttendee, selectedAttendee>>
       ELSE /\ dragging' = FALSE
            /\ resizeRef' = NULL
            /\ dragRef' = IdleDragRef
            /\ UNCHANGED <<domainVars, selVars, panRef, seatDragVars, stackVars>>
    /\ UNCHANGED <<roomVars, idVars, snapVars, ghostEntity, panVars>>

\* ------------------------------------------------------------------ toolbar

\* The toolbar buttons are disabled while nothing is selected; the R and Delete
\* keys reach the same guards.
performDelete(type, id) ==
    /\ button = "up"
    /\ CanPush(1)
    /\ undoStack' = saveUndo(undoStack) /\ redoStack' = <<>>
    /\ LET Keep(e) == e.id # id
       IN  IF type = "table"
           THEN tables' = SelectSeq(tables, Keep) /\ UNCHANGED <<chairBlocks, venueElements>>
           ELSE IF type = "block"
           THEN chairBlocks' = SelectSeq(chairBlocks, Keep) /\ UNCHANGED <<tables, venueElements>>
           ELSE venueElements' = SelectSeq(venueElements, Keep) /\ UNCHANGED <<tables, chairBlocks>>
    /\ IF selectedItem # NULL /\ selectedItem.item.id = id
       THEN selectedItem' = NULL /\ selectedItems' = <<>>
       ELSE UNCHANGED selVars
    /\ lastOp' = [op |-> "performDelete"]
    /\ UNCHANGED <<roomVars, attendees, disabledAttendees, idVars, snapVars, ghostEntity,
                   gestureVars, panVars, seatDragVars, button, gest>>

\* entities a delete can be confirmed for: the selection (toolbar, Delete key) and
\* every table and chair block (the delete buttons of the list view)
DeleteChoices ==
    (IF selectedItem = NULL THEN {}
     ELSE {[type |-> selectedItem.type, id |-> selectedItem.item.id]}) \cup
    {[type |-> "table", id |-> tables[i].id] : i \in DOMAIN tables} \cup
    {[type |-> "block", id |-> chairBlocks[i].id] : i \in DOMAIN chairBlocks}

RotatedRound(item) ==
    LET total == item.seats
        shift == IF total >= 4 THEN total \div 4 ELSE 1
        a == item.assignments
    IN  [k \in {(j + shift) % total : j \in DOMAIN a} |->
            LET S == {j \in DOMAIN a : (j + shift) % total = k}
            IN  a[CHOOSE j \in S : \A i \in S : i <= j]]

RotatedBlock(item) ==
    LET oldRows == item.rows
        oldCols == item.cols
        a == item.assignments
        Ok(key) == LET nr == key[2]
                       nc == oldRows - 1 - key[1]
                   IN  nr >= 0 /\ nr < oldCols /\ nc >= 0 /\ nc < oldRows
    IN  [k \in {<<key[2], oldRows - 1 - key[1]>> : key \in {q \in DOMAIN a : Ok(q)}} |->
            a[CHOOSE key \in DOMAIN a : <<key[2], oldRows - 1 - key[1]>> = k]]

\* rotateSelected with the explored undo stack capped at cap checkpoints
rotateSelectedWithin(cap) ==
    /\ selectedItem # NULL
    /\ Len(undoStack) + 1 <= cap
    /\ undoStack' = saveUndo(undoStack) /\ redoStack' = <<>>
    /\ LET type == selectedItem.type
           item == selectedItem.item
       IN  IF type = "table" /\ item.tableType = "rect"
           THEN LET Rot(t) == [t EXCEPT !.widthFt = t.heightFt, !.heightFt = t.widthFt,
                                        !.orientation = IF t.orientation = "horizontal"
                                                        THEN "vertical" ELSE "horizontal"]
                IN  /\ tables' = MapById(tables, item.id, Rot)
                    /\ UNCHANGED <<chairBlocks, venueElements>>
           ELSE IF type = "table" /\ item.tableType = "round"
           THEN IF item.seats > 0 /\ DOMAIN item.assignments # {}
                THEN LET Rot(t) == [t EXCEPT !.assignments = RotatedRound(item)]
                     IN  /\ tables' = MapById(tables, item.id, Rot)
                         /\ UNCHANGED <<chairBlocks, venueElements>>
                ELSE UNCHANGED <<tables, chairBlocks, venueElements>>
           ELSE IF type = "block"
           THEN LET Rot(b) == [b EXCEPT !.rows = item.cols, !.cols = item.rows,
                                        !.assignments = RotatedBlock(item)]
                IN  /\ chairBlocks' = MapById(chairBlocks, item.id, Rot)
                    /\ UNCHANGED <<tables, venueElements>>
           ELSE LET Rot(e) == [e EXCEPT !.widthFt = e.heightFt, !.heightFt = e.widthFt]
                IN  /\ venueElements' = MapById(venueElements, item.id, Rot)
                    /\ UNCHANGED <<tables, chairBlocks>>
    /\ lastOp' = [op |-> "rotateSelected",
                  run |-> IF lastOp.op = "rotateSelected" THEN lastOp.run + 1 ELSE 1]
    /\ UNCHANGED <<roomVars, attendees, disabledAttendees, idVars, selVars, snapVars,
                   ghostEntity, gestureVars, panVars, seatDragVars, button, gest>>

rotateSelected == rotateSelectedWithin(MaxUndo)


copySelected ==
    /\ button = "up"
    /\ selectedItem # NULL
    /\ CanPush(1)
    /\ Len(Collection(selectedItem.type)) < MaxPerKind
    /\ NextId(selectedItem.type) <= MaxId
    /\ undoStack' = saveUndo(undoStack) /\ redoStack' = <<>>
    /\ LET type == selectedItem.type
           item == selectedItem.item
           newId == NextId(type)
           moved == [item EXCEPT !.id = newId, !.x = item.x + Ft(COPY_OFFSET),
                                 !.y = item.y + Ft(COPY_OFFSET)]
           copy == IF type = "venue" THEN moved ELSE [moved EXCEPT !.assignments = EmptyMap]
       IN  /\ IF type = "table"
              THEN /\ tables' = Append(tables, copy)
                   /\ nextTableId' = nextTableId + 1
                   /\ UNCHANGED <<chairBlocks, venueElements, nextBlockId, nextElementId>>
              ELSE IF type = "block"
              THEN /\ chairBlocks' = Append(chairBlocks, copy)
                   /\ nextBlockId' = nextBlockId + 1
                   /\ UNCHANGED <<tables, venueElements, nextTableId, nextElementId>>
              ELSE /\ venueElements' = Append(venueElements, copy)
                   /\ nextElementId' = nextElementId + 1
                   /\ UNCHANGED <<tables, chairBlocks, nextTableId, nextBlockId>>
           /\ selectedItem' = [type |-> type, item |-> copy]
    /\ lastOp' = [op |-> "copySelected"]
    /\ UNCHANGED <<roomVars, attendees, disabledAttendees, selectedItems, snapVars,
                   ghostEntity, gestureVars, panVars, seatDragVars, button, gest>>

toggleLock ==
    /\ button = "up"
    /\ selectedItem # NULL
    /\ CanPush(1)
    /\ undoStack' = saveUndo(undoStack) /\ redoStack' = <<>>
    /\ LET type == selectedItem.type
           item == selectedItem.item
           newLocked == ~item.locked
           Lock(e) == [e EXCEPT !.locked = newLocked]
       IN  /\ IF type = "table"
              THEN tables' = MapById(tables, item.id, Lock) /\ UNCHANGED <<chairBlocks, venueElements>>
              ELSE IF type = "block"
              THEN chairBlocks' = MapById(chairBlocks, item.id, Lock) /\ UNCHANGED <<tables, venueElements>>
              ELSE venueElements' = MapById(venueElements, item.id, Lock) /\ UNCHANGED <<tables, chairBlocks>>
           /\ selectedItem' = [type |-> type, item |-> Lock(item)]
    /\ lastOp' = [op |-> "toggleLock"]
    /\ UNCHANGED <<roomVars, attendees, disabledAttendees, idVars, selectedItems, snapVars,
                   ghostEntity, gestureVars, panVars, seatDragVars, button, gest>>

\* One repaint of the canvas: the seats of every table and the border and
\* chairs of every block as drawCanvas lays them out.
drawCanvas ==
    /\ lastOp' = [op |-> "drawCanvas",
                  tableSeats |-> [i \in DOMAIN tables |-> TableSeatPositions(tables[i])],
                  blockSeats |-> [i \in DOMAIN chairBlocks |-> BlockSeatPositions(chairBlocks[i])],
                  blockBorders |-> [i \in DOMAIN chairBlocks |-> BlockBorder(chairBlocks[i])]]
    /\ UNCHANGED <<roomVars, domainVars, idVars, selVars, snapVars, ghostEntity,
                   gestureVars, panVars, seatDragVars, stackVars, button, gest>>

\* Room dimensions the width and height inputs are set to (both accept 10..200).
RoomWidths == {60, 120}
RoomHeights == {40, 20}

setRoomWidth(w) ==
    /\ button = "up"
    /\ roomWidth' = w
    /\ lastOp' = [op |-> "setRoomWidth"]
    /\ UNCHANGED <<roomHeight, domainVars, idVars, selVars, snapVars, ghostEntity,
                   gestureVars, panVars, seatDragVars, stackVars, button, gest>>

setRoomHeight(h) ==
    /\ button = "up"
    /\ roomHeight' = h
    /\ lastOp' = [op |-> "setRoomHeight"]
    /\ UNCHANGED <<roomWidth, domainVars, idVars, selVars, snapVars, ghostEntity,
                   gestureVars, panVars, seatDragVars, stackVars, button, gest>>

\* the grid select offers 1, 2 and 5 ft
GridSizes == {1, 2, 5}

\* the zoom-in step without the upper bound
ZoomInLevel_Unclamped(z) == z + ZOOM_STEP

\* Math.min(400, z === 100 ? 125 : z + 25)
ZoomInLevel(z) == Min(ZOOM_MAX, IF z = ZOOM_FIT THEN 125 ELSE z + ZOOM_STEP)
\* Math.max(25, z > 100 ? z - 25 : z === 100 ? 75 : z - 25)
ZoomOutLevel(z) ==
    Max(ZOOM_MIN, IF z > ZOOM_FIT THEN z - ZOOM_STEP
                  ELSE IF z = ZOOM_FIT THEN 75 ELSE z - ZOOM_STEP)

\* Wheel with the modifier held at canvas pixel (mx, my): the zoom steps and the
\* pan is recomputed so that the world point under the pointer stays there.
\* The pointer positions taken are those where the new pan is a whole pixel.
wheelZoom(mx, my, deltaNeg) ==
    LET newZoom == IF deltaNeg THEN ZoomInLevel(zoomLevel) ELSE ZoomOutLevel(zoomLevel)
        newScale == ScaleAt(newZoom)
        newBaseOffX == (CANVAS_W - roomWidth * newScale) \div 2
        newBaseOffY == (CANVAS_H - roomHeight * newScale) \div 2
        \* worldX * newScale = (mx - curOffX) * newScale / curScale
        wx == (mx - offsetX) * newScale
        wy == (my - offsetY) * newScale
        newPanX == mx - wx \div scale - newBaseOffX
        newPanY == my - wy \div scale - newBaseOffY
    IN  /\ wx % scale = 0 /\ wy % scale = 0
        /\ Abs(newPanX) <= MaxPan /\ Abs(newPanY) <= MaxPan
        /\ zoomLevel' = newZoom
        /\ panX' = newPanX /\ panY' = newPanY
        /\ lastOp' = [op |-> "wheelZoom", deltaNeg |-> deltaNeg]
        /\ UNCHANGED <<roomVars, domainVars, idVars, selVars, snapVars, ghostEntity,
                       gestureVars, seatDragVars, stackVars, button, gest>>

\* the - and + buttons of the top bar
zoomOutButton ==
    /\ button = "up"
    /\ zoomLevel' = ZoomOutLevel(zoomLevel)
    /\ lastOp' = [op |-> "zoomOutButton"]
    /\ UNCHANGED <<roomVars, domainVars, idVars, selVars, snapVars, ghostEntity,
                   gestureVars, panX, panY, seatDragVars, stackVars, button, gest>>

zoomInButton ==
    /\ button = "up"
    /\ zoomLevel' = ZoomInLevel(zoomLevel)
    /\ lastOp' = [op |-> "zoomInButton"]
    /\ UNCHANGED <<roomVars, domainVars, idVars, selVars, snapVars, ghostEntity,
                   gestureVars, panX, panY, seatDragVars, stackVars, button, gest>>

\* the Fit button
zoomFitButton ==
    /\ button = "up"
    /\ zoomLevel' = ZOOM_FIT /\ panX' = 0 /\ panY' = 0
    /\ lastOp' = [op |-> "zoomFitButton"]
    /\ UNCHANGED <<roomVars, domainVars, idVars, selVars, snapVars, ghostEntity,
                   gestureVars, seatDragVars, stackVars, button, gest>>

setGridSize(g) ==
    /\ button = "up"
    /\ gridSize' = g
    /\ lastOp' = [op |-> "setGridSize"]
    /\ UNCHANGED <<roomVars, domainVars, idVars, selVars, snapEnabled, ghostEntity,
                   gestureVars, panVars, seatDragVars, stackVars, button, gest>>

setSnapEnabled ==
    /\ button = "up"
    /\ snapEnabled' = ~snapEnabled
    /\ lastOp' = [op |-> "setSnapEnabled"]
    /\ UNCHANGED <<roomVars, domainVars, idVars, selVars, gridSize, ghostEntity,
                   gestureVars, panVars, seatDragVars, stackVars, button, gest>>

\* card header of the list view: onSelect(type, entity)
onSelect(type, entity) ==
    /\ button = "up"
    /\ selectedItem' = [type |-> type, item |-> entity]
    /\ selectedItems' = <<>>
    /\ lastOp' = [op |-> "onSelect"]
    /\ UNCHANGED <<roomVars, domainVars, idVars, snapVars, ghostEntity,
                   gestureVars, panVars, seatDragVars, stackVars, button, gest>>


\* seats as autoAssign lists them: { type, id, key }
SeqMapSeat(type, id, keys) == [i \in 1..Len(keys) |-> [type |-> type, id |-> id, key |-> keys[i]]]

RECURSIVE Flatten(_)
Flatten(ss) == IF Len(ss) = 0 THEN <<>> ELSE Head(ss) \o Flatten(Tail(ss))

\* ------------------------------------------------------------ attendee panel

AttendeeIdx == 0..(Len(attendees) - 1)

\* what a seat operation is told, and what held when it was called
SeatOp(name, entityType, entityId, seatKey, attIdx) ==
    LET entity == FindById(IF entityType = "table" THEN tables ELSE chairBlocks,
                           entityId, NULL)
    IN  [op |-> name, entityType |-> entityType, entityId |-> entityId,
         seatKey |-> seatKey, attIdx |-> attIdx,
         seated |-> attIdx \in assigned,
         disabled |-> attIdx \in disabledAttendees,
         occupied |-> entity # NULL /\ seatKey \in DOMAIN entity.assignments]

SeatFrame ==
    UNCHANGED <<roomVars, venueElements, attendees, disabledAttendees, idVars, selVars,
                snapVars, ghostEntity, gestureVars, panVars, seatDragVars, button, gest>>

Call_assignAttendee(si, attIdx) ==
    /\ Commit(assignAttendee(Rendered, si.entityType, si.entity.id, si.seatKey, attIdx))
    /\ lastOp' = SeatOp("assignAttendee", si.entityType, si.entity.id, si.seatKey, attIdx)
    /\ SeatFrame

Call_forceAssignSeat(si, attIdx) ==
    /\ Commit(forceAssignSeat(Rendered, si.entityType, si.entity.id, si.seatKey, attIdx))
    /\ lastOp' = SeatOp("forceAssignSeat", si.entityType, si.entity.id, si.seatKey, attIdx)
    /\ SeatFrame

Call_assignNextAvailable(entityType, entityId, attIdx) ==
    /\ Commit(assignNextAvailable(Rendered, entityType, entityId, attIdx))
    /\ lastOp' = [op |-> "assignNextAvailable", entityType |-> entityType,
                  entityId |-> entityId, attIdx |-> attIdx]
    /\ SeatFrame

Call_unassignSeat(si) ==
    /\ Commit(unassignSeat(Rendered, si.entityType, si.entity.id, si.seatKey))
    /\ lastOp' = [op |-> "unassignSeat", entityType |-> si.entityType,
                  entityId |-> si.entity.id, seatKey |-> si.seatKey]
    /\ SeatFrame

Call_swapSeats(si, sj) ==
    /\ si.entityType = sj.entityType /\ si.entity.id = sj.entity.id
    /\ Commit(swapSeats(Rendered, si.entityType, si.entity.id, si.seatKey, sj.seatKey))
    /\ lastOp' = [op |-> "swapSeats", entityType |-> si.entityType,
                  entityId |-> si.entity.id, seatKeyA |-> si.seatKey, seatKeyB |-> sj.seatKey,
                  before |-> si.entity.assignments,
                  repeat |-> /\ lastOp.op = "swapSeats"
                             /\ lastOp.entityType = si.entityType
                             /\ lastOp.entityId = si.entity.id
                             /\ lastOp.seatKeyA = si.seatKey
                             /\ lastOp.seatKeyB = sj.seatKey]
    /\ SeatFrame

Call_moveSeatToSeat(si, sj, eager) ==
    /\ Commit(moveSeatToSeat(Rendered, si.entityType, si.entity.id, si.seatKey,
                             sj.entityType, sj.entity.id, sj.seatKey, eager))
    /\ lastOp' = [op |-> "moveSeatToSeat", src |-> <<si.entityType, si.entity.id, si.seatKey>>,
                  dst |-> <<sj.entityType, sj.entity.id, sj.seatKey>>, eager |-> eager]
    /\ SeatFrame

RemoveAttendee(coll, attIdx) ==
    [i \in 1..Len(coll) |->
        [coll[i] EXCEPT !.assignments =
            [k \in {j \in DOMAIN coll[i].assignments : coll[i].assignments[j] # attIdx} |->
                coll[i].assignments[k]]]]

\* Array.prototype.sort with the name comparator: a stable sort. A name of the
\* model is its rank in the collation order of (last, first).
InsertSorted(s, n) ==
    LET k == Cardinality({i \in 1..Len(s) : s[i] <= n})
    IN  SubSeq(s, 1, k) \o <<n>> \o SubSeq(s, k + 1, Len(s))

RECURSIVE SortRoster(_)
SortRoster(s) ==
    IF s = <<>> THEN <<>>
    ELSE InsertSorted(SortRoster(SubSeq(s, 1, Len(s) - 1)), s[Len(s)])

\* the Add button of the attendee modal, with a name typed in
confirmAddAttendee(name) ==
    /\ button = "up"
    /\ Len(attendees) < MaxRoster
    /\ attendees' = SortRoster(Append(attendees, name))
    /\ lastOp' = [op |-> "confirmAddAttendee", name |-> name]
    /\ UNCHANGED <<roomVars, tables, chairBlocks, venueElements, disabledAttendees, idVars,
                   selVars, snapVars, ghostEntity, gestureVars, panVars, seatDragVars,
                   stackVars, button, gest>>

toggleDisable(attIdx) ==
    /\ IF attIdx \in disabledAttendees
       THEN /\ disabledAttendees' = disabledAttendees \ {attIdx}
            /\ UNCHANGED <<tables, chairBlocks>>
       ELSE /\ tables' = RemoveAttendee(tables, attIdx)
            /\ chairBlocks' = RemoveAttendee(chairBlocks, attIdx)
            /\ disabledAttendees' = disabledAttendees \cup {attIdx}
    /\ lastOp' = [op |-> "toggleDisable", attIdx |-> attIdx]
    /\ UNCHANGED <<roomVars, venueElements, attendees, idVars, selVars, snapVars,
                   ghostEntity, gestureVars, panVars, seatDragVars, stackVars, button, gest>>

\* the disable button of the attendee panel
ToggleDisableClick ==
    /\ button = "up"
    /\ selectedAttendee # <<>>
    /\ toggleDisable(selectedAttendee[1])

\* mouse down on a row of the attendee panel
AttendeeMouseDown(idx) ==
    /\ button = "up"
    /\ button' = "down"
    /\ selectedAttendee' = <<idx>>
    /\ IF idx \notin disabledAttendees /\ idx \notin assigned
       THEN dragAttendee' = <<idx>>
       ELSE UNCHANGED dragAttendee
    /\ lastOp' = [op |-> "attendeeMouseDown", attIdx |-> idx]
    /\ gest' = [kind |-> "none", startX |-> 0, startY |-> 0, exceeded |-> FALSE, far |-> FALSE]
    /\ UNCHANGED <<roomVars, domainVars, idVars, selVars, snapVars, ghostEntity,
                   gestureVars, panVars, popupDragSeat, stackVars>>

\* mouse up outside the canvas and the list cards: only the app layout hears it
AppMouseUp ==
    /\ button = "down"
    /\ button' = "up"
    /\ dragAttendee' = <<>>
    /\ popupDragSeat' = NULL
    /\ lastOp' = [op |-> "appMouseUp"]
    /\ gest' = IdleGest
    /\ UNCHANGED <<roomVars, domainVars, idVars, selVars, snapVars, ghostEntity,
                   gestureVars, panVars, selectedAttendee, stackVars>>

\* List view, mouse up over the seat row si of a card during an attendee drag.
\* The event reaches SeatRow, then EntityCard, then the app layout, all with the
\* props of the same render.
SeatRowMouseUp(si) ==
    /\ button = "down"
    /\ button' = "up"
    /\ LET occ == si.seatKey \in DOMAIN si.entity.assignments
           w1 == IF dragAttendee # <<>> /\ ~occ
                 THEN assignAttendee(Rendered, si.entityType, si.entity.id, si.seatKey,
                                     dragAttendee[1])
                 ELSE Rendered
           w2 == IF dragAttendee # <<>>
                 THEN assignNextAvailable(w1, si.entityType, si.entity.id, dragAttendee[1])
                 ELSE w1
       IN  Commit(w2)
    /\ dragAttendee' = <<>>
    /\ popupDragSeat' = NULL
    /\ lastOp' = [op |-> "seatRowMouseUp"]
    /\ gest' = IdleGest
    /\ UNCHANGED <<roomVars, venueElements, attendees, disabledAttendees, idVars, selVars,
                   snapVars, ghostEntity, gestureVars, panVars, selectedAttendee>>

\* List view, click on the name cell of seat row si
SeatRowClick(si) ==
    /\ button = "up"
    /\ IF /\ si.seatKey \notin DOMAIN si.entity.assignments
          /\ selectedAttendee # <<>>
          /\ selectedAttendee[1] \notin assigned
          /\ selectedAttendee[1] \notin disabledAttendees
       THEN Commit(assignAttendee(Rendered, si.entityType, si.entity.id, si.seatKey,
                                  selectedAttendee[1]))
       ELSE UNCHANGED <<tables, chairBlocks, stackVars>>
    /\ lastOp' = [op |-> "seatRowClick"]
    /\ SeatFrame

\* orders autoAssign can visit the unassigned attendees in ('fill' and 'alpha'
\* keep roster order, 'random' shuffles)
Orders(S) ==
    {o \in [1..Cardinality(S) -> S] : \A i, j \in 1..Cardinality(S) : i # j => o[i] # o[j]}

\* the seat list of auto-assign with the taken seats left in
EmptySeats_AllSeats ==
    LET AllOf(type, coll) ==
           [i \in 1..Len(coll) |-> SeqMapSeat(type, coll[i].id, seatKeys(coll[i]))]
    IN  Flatten(AllOf("table", tables)) \o Flatten(AllOf("block", chairBlocks))

EmptySeats ==
    LET OpenOf(type, coll) ==
           [i \in 1..Len(coll) |->
               LET keys == seatKeys(coll[i])
                   Open(k) == k \notin DOMAIN coll[i].assignments
               IN  SeqMapSeat(type, coll[i].id, SelectSeq(keys, Open))]
    IN  Flatten(OpenOf("table", tables)) \o Flatten(OpenOf("block", chairBlocks))

\* tAssign and bAssign are keyed by entity id; with ids unique per kind, as in
\* every layout auto-assign is run on here, that is one map per entity.
autoAssign(order) ==
    /\ button = "up"
    /\ CanPush(1)
    /\ undoStack' = saveUndo(undoStack) /\ redoStack' = <<>>
    /\ LET n == Min(Len(order), Len(EmptySeats))
           Fill(type, e) ==
              [e EXCEPT !.assignments =
                 [k \in DOMAIN e.assignments \cup
                        {EmptySeats[i].key : i \in {j \in 1..n :
                             EmptySeats[j].type = type /\ EmptySeats[j].id = e.id}} |->
                    IF k \in DOMAIN e.assignments THEN e.assignments[k]
                    ELSE order[CHOOSE i \in 1..n :
                                 /\ EmptySeats[i].type = type /\ EmptySeats[i].id = e.id
                                 /\ EmptySeats[i].key = k]]]
       IN  IF Len(order) = 0
           THEN UNCHANGED <<tables, chairBlocks>>
           ELSE /\ tables' = [i \in 1..Len(tables) |-> Fill("table", tables[i])]
                /\ chairBlocks' = [i \in 1..Len(chairBlocks) |-> Fill("block", chairBlocks[i])]
    /\ lastOp' = [op |-> "autoAssign"]
    /\ UNCHANGED <<roomVars, venueElements, attendees, disabledAttendees, idVars, selVars,
                   snapVars, ghostEntity, gestureVars, panVars, seatDragVars, button, gest>>


\* ----------------------------------------------------------- specifications

\* Points of the canvas the editor is driven with. With the initial room one
\* pixel is an inch: (400, 300) is the room centre (30 ft, 20 ft), 403 a quarter
\* foot right of it, 460 five feet, and 28 lies one foot left of
\* the room's left wall.
PlaceXs == {28, 400}
DragXs == {400, 403, 460}
SelectXs == {400, 460}
PointerYs == {300}

\* The layout editor: ghost placement and cancellation, selection by click,
\* copy, delete, the room size, undo and redo.
Next ==
    \/ \E params \in AddChoices : confirmAdd(params)
    \/ cancelGhost
    \/ handleCanvasContextMenu
    \/ \E x \in PlaceXs, y \in PointerYs : handleCanvasMouseDown(x, y, FALSE)
    \/ \E x \in PlaceXs, y \in PointerYs : handleCanvasMouseUp(x, y, NULL)
    \/ \E d \in DeleteChoices : performDelete(d.type, d.id)
    \/ copySelected
    \/ undo
    \/ redo

Spec == Init /\ [][Next]_vars

\* A saved project as loadProject and the auto-restore install it: a round table
\* at the room centre, a DJ booth five feet to its right, a row of two chairs
\* below them, and a roster.
ProjectTables ==
    <<createTable(1, Ft(30), Ft(20), "round", 2, Ft(4), Ft(4), "horizontal", 0)>>
ProjectBlocks == <<createChairBlock(1, Ft(20), Ft(30), 1, 2, "normal")>>
ProjectVenue == <<createVenueElement(1, Ft(35), Ft(20), Ft(6), Ft(4))>>

InitProject ==
    /\ roomWidth = INIT_ROOM_WIDTH /\ roomHeight = INIT_ROOM_HEIGHT
    /\ tables = ProjectTables /\ chairBlocks = ProjectBlocks
    /\ venueElements = ProjectVenue
    /\ attendees = [i \in 1..NumAttendees |-> i] /\ disabledAttendees = {}
    /\ nextTableId = 2 /\ nextBlockId = 2 /\ nextElementId = 2
    /\ InitView

\* Creation, copy and deletion over a loaded project.
SpecIds == InitProject /\ [][Next]_vars

\* Pointer gestures over a loaded project: select, ctrl-select, single and
\* multi drag, with the lock toggle.
NextDrag ==
    \/ \E x \in DragXs, y \in PointerYs, ctrlHeld \in BOOLEAN : handleCanvasMouseDown(x, y, ctrlHeld)
    \/ \E x \in DragXs, y \in PointerYs : handleCanvasMouseMove(x, y)
    \/ \E x \in DragXs, y \in PointerYs : handleCanvasMouseUp(x, y, NULL)
    \/ toggleLock

SpecDrag == InitProject /\ [][NextDrag]_vars

\* The toolbar over a selection made by click: lock, rotate, undo, redo.
NextTool ==
    \/ \E x \in SelectXs, y \in PointerYs : handleCanvasMouseDown(x, y, FALSE)
    \/ \E x \in SelectXs, y \in PointerYs : handleCanvasMouseUp(x, y, NULL)
    \/ toggleLock
    \/ rotateSelected
    \/ undo
    \/ redo

SpecTool == InitProject /\ [][NextTool]_vars

\* The seat operations called directly, with any seat and any attendee.
NextApi ==
    \/ \E si \in SeatInfos, a \in AttendeeIdx : Call_assignAttendee(si, a)
    \/ \E si \in SeatInfos, a \in AttendeeIdx : Call_forceAssignSeat(si, a)
    \/ \E a \in AttendeeIdx : toggleDisable(a)

SpecApi == InitProject /\ [][NextApi]_vars

\* assign, swap and move only, from a layout with no seat taken
NextASM ==
    \/ \E si \in SeatInfos, a \in AttendeeIdx : Call_assignAttendee(si, a)
    \/ \E si, sj \in SeatInfos : Call_swapSeats(si, sj)
    \/ \E si, sj \in SeatInfos, eager \in BOOLEAN : Call_moveSeatToSeat(si, sj, eager)

SpecASM == InitProject /\ [][NextASM]_vars

\* Seating through the attendee panel and the list view: the first attendee of
\* the roster is dragged onto the seat rows of the table cards, disabled and
\* enabled by hand; auto-assign seats whoever is free.
HandledAttendees == {0}
TableSeatInfos == {si \in SeatInfos : si.entityType = "table"}
Unassigned == {a \in AttendeeIdx : a \notin assigned /\ a \notin disabledAttendees}

NextSeat ==
    \/ \E a \in HandledAttendees : AttendeeMouseDown(a)
    \/ \E si \in TableSeatInfos : SeatRowMouseUp(si)
    \/ AppMouseUp
    \/ ToggleDisableClick
    \/ \E i \in DOMAIN tables : onSelect("table", tables[i])
    \/ rotateSelected
    \/ \E order \in Orders(Unassigned) : autoAssign(order)
    \/ undo
    \/ redo

SpecSeat == InitProject /\ [][NextSeat]_vars

\* Pointer gestures whose button may be released outside the canvas: the canvas
\* has no mouse-leave handler, and a release over the rest of the page reaches
\* only the app layout. The pointer visits empty canvas, the venue element and
\* the lower right resize handle of the venue element.
GesturePoints == {<<28, 300>>, <<460, 300>>, <<496, 324>>}

NextGesture ==
    \/ \E p \in GesturePoints : handleCanvasMouseDown(p[1], p[2], FALSE)
    \/ \E p \in GesturePoints : handleCanvasMouseMove(p[1], p[2])
    \/ \E p \in GesturePoints : handleCanvasMouseUp(p[1], p[2], NULL)
    \/ AppMouseUp

SpecGesture == InitProject /\ [][NextGesture]_vars

\* Ghost placement over a loaded project: the ghost is created, follows the
\* pointer, and is committed by a click or cancelled by Escape or right-click.
NextGhost ==
    \/ \E params \in AddChoices : confirmAdd(params)
    \/ cancelGhost
    \/ handleCanvasContextMenu
    \/ \E x \in PlaceXs, y \in PointerYs : handleCanvasMouseMove(x, y)
    \/ \E x \in PlaceXs, y \in PointerYs : handleCanvasMouseDown(x, y, FALSE)
    \/ \E x \in PlaceXs, y \in PointerYs : handleCanvasMouseUp(x, y, NULL)

SpecGhost == InitProject /\ [][NextGhost]_vars

\* Swaps over a loaded project whose round table of three seats comes with any
\* seating of the roster: nobody, one attendee or both, in any of its seats.
SwapMaps ==
    {f \in UNION {[D -> 0..(NumAttendees - 1)] : D \in SUBSET (0..2)} :
        \A j, k \in DOMAIN f : j # k => f[j] # f[k]}

InitSwap ==
    /\ roomWidth = INIT_ROOM_WIDTH /\ roomHeight = INIT_ROOM_HEIGHT
    /\ \E a \in SwapMaps :
          tables = <<[createTable(1, Ft(30), Ft(20), "round", 3, Ft(4), Ft(4), "horizontal", 0)
                        EXCEPT !.assignments = a]>>
    /\ chairBlocks = ProjectBlocks
    /\ venueElements = ProjectVenue
    /\ attendees = [i \in 1..NumAttendees |-> i] /\ disabledAttendees = {}
    /\ nextTableId = 2 /\ nextBlockId = 2 /\ nextElementId = 2
    /\ InitView

NextSwap == \E si, sj \in SeatInfos : Call_swapSeats(si, sj)

SpecSwap == InitSwap /\ [][NextSwap]_vars

\* Rotate pressed up to MaxRotations times in a row on a chair block selected by
\* a click on the canvas. The block of the loaded project comes as one row of
\* two chairs or as two rows of two, with any seating of the roster.
RotatePoints == {<<290, 425>>}
BlockShapes == {<<1, 2>>, <<2, 2>>}
BlockMaps(rows, cols) ==
    {f \in UNION {[D -> 0..(NumAttendees - 1)] :
                     D \in SUBSET ((0..(rows - 1)) \X (0..(cols - 1)))} :
        \A j, k \in DOMAIN f : j # k => f[j] # f[k]}

InitRotate ==
    /\ roomWidth = INIT_ROOM_WIDTH /\ roomHeight = INIT_ROOM_HEIGHT
    /\ tables = ProjectTables
    /\ \E shape \in BlockShapes : \E a \in BlockMaps(shape[1], shape[2]) :
          chairBlocks = <<[createChairBlock(1, Ft(20), Ft(30), shape[1], shape[2], "normal")
                             EXCEPT !.assignments = a]>>
    /\ venueElements = ProjectVenue
    /\ attendees = [i \in 1..NumAttendees |-> i] /\ disabledAttendees = {}
    /\ nextTableId = 2 /\ nextBlockId = 2 /\ nextElementId = 2
    /\ InitView

NextRotate ==
    \/ \E p \in RotatePoints : handleCanvasMouseDown(p[1], p[2], FALSE)
    \/ \E p \in RotatePoints : handleCanvasMouseUp(p[1], p[2], NULL)
    \/ rotateSelectedWithin(MaxRotations)

SpecRotate == InitRotate /\ [][NextRotate]_vars

\* Select by click, drag, release, then Copy.
NextCopy ==
    \/ \E x \in DragXs, y \in PointerYs : handleCanvasMouseDown(x, y, FALSE)
    \/ \E x \in DragXs, y \in PointerYs : handleCanvasMouseMove(x, y)
    \/ \E x \in DragXs, y \in PointerYs : handleCanvasMouseUp(x, y, NULL)
    \/ copySelected

SpecCopy == InitProject /\ [][NextCopy]_vars

\* Repaints of a project that holds one table and one chair block of any of
\* the shapes below, in a room of either size.
LayoutTables ==
    {createTable(1, Ft(30), Ft(20), "round", n, Ft(4), Ft(4), "horizontal", 0) : n \in 0..3}
    \cup {createTable(1, Ft(30), Ft(20), "rect", n, Ft(6), Ft(3), "horizontal", e) :
                n \in 0..3, e \in 0..2}
    \cup {createTable(1, Ft(30), Ft(20), "rect", n, Ft(3), Ft(6), "vertical", e) :
                n \in 0..3, e \in 0..2}
LayoutBlocks ==
    {createChairBlock(1, Ft(5), Ft(5), rows, cols, spacing) :
        rows \in 1..2, cols \in 1..3, spacing \in {"tight", "normal", "wide"}}

InitLayout ==
    /\ roomWidth = INIT_ROOM_WIDTH /\ roomHeight = INIT_ROOM_HEIGHT
    /\ \E t \in LayoutTables : tables = <<t>>
    /\ \E b \in LayoutBlocks : chairBlocks = <<b>>
    /\ venueElements = <<>>
    /\ attendees = [i \in 1..NumAttendees |-> i] /\ disabledAttendees = {}
    /\ nextTableId = 2 /\ nextBlockId = 2 /\ nextElementId = 1
    /\ InitView

NextLayout ==
    \/ drawCanvas
    \/ \E w \in RoomWidths : setRoomWidth(w)
    \/ \E h \in RoomHeights : setRoomHeight(h)

SpecLayout == InitLayout /\ [][NextLayout]_vars

\* Drags with the grid at every size and snapping on or off, over a project
\* with one entity of each kind on one row: a chair block, a rectangular table
\* of 5 ft by 3 ft, a round table and a DJ booth.
SnapTables ==
    <<createTable(1, Ft(30), Ft(20), "round", 2, Ft(4), Ft(4), "horizontal", 0),
      createTable(2, Ft(20), Ft(20), "rect", 2, Ft(5), Ft(3), "horizontal", 0)>>
SnapBlocks == <<createChairBlock(1, Ft(10), Ft(19), 1, 2, "normal")>>
SnapXs == {170, 280, 400, 460}
SnapMoveXs == {431}

InitSnap ==
    /\ roomWidth = INIT_ROOM_WIDTH /\ roomHeight = INIT_ROOM_HEIGHT
    /\ tables = SnapTables /\ chairBlocks = SnapBlocks
    /\ venueElements = ProjectVenue
    /\ attendees = [i \in 1..NumAttendees |-> i] /\ disabledAttendees = {}
    /\ nextTableId = 3 /\ nextBlockId = 2 /\ nextElementId = 2
    /\ InitView

NextSnap ==
    \/ \E x \in SnapXs, y \in PointerYs : handleCanvasMouseDown(x, y, FALSE)
    \/ \E x \in SnapMoveXs, y \in PointerYs : handleCanvasMouseMove(x, y)
    \/ \E x \in SnapMoveXs, y \in PointerYs : handleCanvasMouseUp(x, y, NULL)
    \/ \E g \in GridSizes : setGridSize(g)
    \/ setSnapEnabled

SpecSnap == InitSnap /\ [][NextSnap]_vars

\* Resizes of the DJ booth: it is selected by a click on its body, grabbed by a
\* corner handle and pulled to points outside it, inside it next to the far
\* corner, and beyond the far corner, with the grid at any size, snapping on
\* or off.
ResizeGrabs == {<<460, 300>>, <<496, 324>>}
ResizePulls == {<<430, 280>>, <<400, 260>>, <<520, 348>>}

NextResize ==
    \/ \E p \in ResizeGrabs : handleCanvasMouseDown(p[1], p[2], FALSE)
    \/ \E p \in ResizePulls : handleCanvasMouseMove(p[1], p[2])
    \/ \E p \in ResizePulls : handleCanvasMouseUp(p[1], p[2], NULL)
    \/ \E g \in GridSizes : setGridSize(g)
    \/ setSnapEnabled

SpecResize == InitProject /\ [][NextResize]_vars

\* Pointer-downs over layouts whose entities overlap: up to two round tables,
\* two chair blocks and two DJ booths, each 4 ft to the right of the room centre
\* or at it, in any order of creation. The pointer goes down on the centres, in
\* between, and on the bottom-right handle of a booth at the centre, which lies
\* over the bodies of the entities to the right.
HitColumns == {Ft(30), Ft(34)}
HitPoints == {<<400, 300>>, <<424, 300>>, <<448, 300>>, <<436, 317>>}
HitLayouts(Make(_, _)) ==
    {<<>>} \cup {<<Make(1, x)>> : x \in HitColumns}
           \cup {<<Make(1, x1), Make(2, x2)>> : x1 \in HitColumns, x2 \in HitColumns}
HitTable(id, x) == createTable(id, x, Ft(20), "round", 2, Ft(4), Ft(4), "horizontal", 0)
HitBlock(id, x) == createChairBlock(id, x - Ft(1), Ft(19), 1, 2, "normal")
HitVenue(id, x) == createVenueElement(id, x, Ft(20), Ft(6), Ft(4))

InitHit ==
    /\ roomWidth = INIT_ROOM_WIDTH /\ roomHeight = INIT_ROOM_HEIGHT
    /\ tables \in HitLayouts(HitTable)
    /\ chairBlocks \in HitLayouts(HitBlock)
    /\ venueElements \in HitLayouts(HitVenue)
    /\ attendees = [i \in 1..NumAttendees |-> i] /\ disabledAttendees = {}
    /\ nextTableId = 3 /\ nextBlockId = 3 /\ nextElementId = 3
    /\ InitView

NextHit ==
    \/ \E p \in HitPoints : handleCanvasMouseDown(p[1], p[2], FALSE)
    \/ \E p \in HitPoints : handleCanvasMouseUp(p[1], p[2], NULL)
    \/ toggleLock

SpecHit == InitHit /\ [][NextHit]_vars

\* Clicks and short drags on the empty margin left of the room, after a click
\* on the DJ booth or the table has selected it.
PanPoints == {<<28, 300>>, <<29, 300>>, <<32, 300>>, <<28, 304>>, <<460, 300>>}

NextPan ==
    \/ \E p \in PanPoints : handleCanvasMouseDown(p[1], p[2], FALSE)
    \/ \E p \in PanPoints : handleCanvasMouseMove(p[1], p[2])
    \/ \E p \in PanPoints : handleCanvasMouseUp(p[1], p[2], NULL)

SpecPan == InitProject /\ [][NextPan]_vars

\* Zooming with the wheel at three canvas points and with the top-bar buttons.
ZoomPoints == {<<400, 300>>, <<404, 300>>, <<400, 304>>}

NextZoom ==
    \/ \E p \in ZoomPoints, deltaNeg \in BOOLEAN : wheelZoom(p[1], p[2], deltaNeg)
    \/ zoomOutButton
    \/ zoomInButton
    \/ zoomFitButton

SpecZoom == InitProject /\ [][NextZoom]_vars

\* Attendees dragged from the panel and dropped on the canvas of a project that
\* was loaded with two of its four guests seated: one at the two-seat round
\* table, one in the first chair of a 2 x 2 block.
DropTables ==
    <<[createTable(1, Ft(30), Ft(20), "round", 2, Ft(4), Ft(4), "horizontal", 0)
         EXCEPT !.assignments = With(EmptyMap, 0, 1)]>>
DropBlocks ==
    <<[createChairBlock(1, Ft(20), Ft(30), 2, 2, "normal")
         EXCEPT !.assignments = With(EmptyMap, <<0, 0>>, 2)]>>
DropRoster == <<1, 2, 3, 4>>
\* on the table, on the block, on the DJ booth, on the empty floor
DropPoints == {<<400, 300>>, <<290, 430>>, <<460, 300>>, <<28, 300>>}

InitDrop ==
    /\ roomWidth = INIT_ROOM_WIDTH /\ roomHeight = INIT_ROOM_HEIGHT
    /\ tables = DropTables /\ chairBlocks = DropBlocks
    /\ venueElements = ProjectVenue
    /\ attendees = DropRoster /\ disabledAttendees = {}
    /\ nextTableId = 2 /\ nextBlockId = 2 /\ nextElementId = 2
    /\ InitView

NextDrop ==
    \/ \E a \in AttendeeIdx : AttendeeMouseDown(a)
    \/ \E p \in DropPoints, si \in SeatInfos \cup {NULL} : handleCanvasMouseUp(p[1], p[2], si)
    \/ undo

SpecDrop == InitDrop /\ [][NextDrop]_vars

\* Guests added by hand to the roster of the loaded project, and guests
\* disabled and enabled: a new name sorts first, after an equal name, or last.
NewNames == {0, 2, 5}

NextRoster ==
    \/ \E name \in NewNames : confirmAddAttendee(name)
    \/ \E a \in AttendeeIdx : toggleDisable(a)

SpecRoster == InitDrop /\ [][NextRoster]_vars

\* Guests dropped on the canvas, entities selected by click and edited to fewer
\* seats, rows and columns than they had (all within the ranges of the dialog).
EditChoices ==
    { [entityType |-> "round_table", seats |-> 1, diameter |-> 4],
      [entityType |-> "chair_block", rows |-> 1, cols |-> 1, spacing |-> "normal"],
      [entityType |-> "venue", widthFt |-> 4, heightFt |-> 4] }

NextEdit ==
    \/ \E a \in AttendeeIdx : AttendeeMouseDown(a)
    \/ \E p \in DropPoints : handleCanvasMouseDown(p[1], p[2], FALSE)
    \/ \E p \in DropPoints, si \in SeatInfos \cup {NULL} : handleCanvasMouseUp(p[1], p[2], si)
    \/ \E params \in EditChoices : confirmEdit(params)

SpecEdit == InitDrop /\ [][NextEdit]_vars

\* Auto-assign over a loaded project with two of four guests seated, where the
\* chair block has one chair (taken) or four: one or four seats are empty. The
\* two guests that are free at the start are disabled and enabled by hand.
InitAuto ==
    /\ roomWidth = INIT_ROOM_WIDTH /\ roomHeight = INIT_ROOM_HEIGHT
    /\ tables = DropTables
    /\ \E shape \in {<<1, 1>>, <<2, 2>>} :
          chairBlocks = <<[DropBlocks[1] EXCEPT !.rows = shape[1], !.cols = shape[2]]>>
    /\ venueElements = ProjectVenue
    /\ attendees = DropRoster /\ disabledAttendees = {}
    /\ nextTableId = 2 /\ nextBlockId = 2 /\ nextElementId = 2
    /\ InitView

NextAuto ==
    \/ \E order \in Orders(Unassigned) : autoAssign(order)
    \/ \E a \in {0, 3} : toggleDisable(a)

SpecAuto == InitAuto /\ [][NextAuto]_vars

\* ------------------------------------------------------------------- claims

\* the (entity, seatKey) pairs of a collection that hold attendee a
SeatsOf(coll, a) ==
    UNION {{<<i, k>> : k \in {j \in DOMAIN coll[i].assignments : coll[i].assignments[j] = a}} :
              i \in DOMAIN coll}

\* C1: after any sequence of assign, swap and move calls from a layout with no
\* seat taken, every attendee index is the value of at most one (entity, seat)
\* pair over all tables and chair blocks.
C1_SeatExclusive ==
    \A a \in AttendeeIdx :
        Cardinality(SeatsOf(tables, a)) + Cardinality(SeatsOf(chairBlocks, a)) <= 1

\* C1 witness: a move across entities has just carried an attendee while the
\* other attendee is seated too.
C1_Witness ==
    /\ lastOp.op = "moveSeatToSeat" /\ lastOp.eager
    /\ lastOp.src[1] # lastOp.dst[1]
    /\ Cardinality(assigned) >= 2

\* C2: assign called with an attendee who is already seated somewhere, or who is
\* disabled, changes no assignment map and captures no undo checkpoint.
C2_AssignNoopWhenSeatedOrDisabled ==
    [][(lastOp'.op = "assignAttendee" /\ (lastOp'.seated \/ lastOp'.disabled))
          => /\ tables' = tables /\ chairBlocks' = chairBlocks
             /\ undoStack' = undoStack /\ redoStack' = redoStack]_vars

\* C2 witness: assign was called for a seated attendee on a free seat.
C2_Witness ==
    /\ lastOp.op = "assignAttendee" /\ lastOp.seated /\ ~lastOp.disabled
    /\ ~lastOp.occupied

\* C3: assign called on a seat that already holds an attendee changes nothing:
\* the seat keeps its occupant.
C3_AssignKeepsOccupant ==
    [][(lastOp'.op = "assignAttendee" /\ lastOp'.occupied)
          => tables' = tables /\ chairBlocks' = chairBlocks]_vars

\* C4: forceAssign called with an attendee who is already seated somewhere, or
\* who is disabled, changes no assignment map and captures no undo checkpoint,
\* exactly as assign does.
C4_ForceAssignNoopWhenSeatedOrDisabled ==
    [][(lastOp'.op = "forceAssignSeat" /\ (lastOp'.seated \/ lastOp'.disabled))
          => /\ tables' = tables /\ chairBlocks' = chairBlocks
             /\ undoStack' = undoStack]_vars

\* C5: in every reachable state no disabled attendee is the value of an
\* assignment map.
C5_NoDisabledSeated == disabledAttendees \cap assigned = {}

\* no two entities of a collection carry the same id
UniqueIds(coll) == \A i, j \in DOMAIN coll : i # j => coll[i].id # coll[j].id

\* C6: in every reachable state the ids of the entities of one kind are
\* pairwise different.
C6_UniqueIds == UniqueIds(tables) /\ UniqueIds(chairBlocks) /\ UniqueIds(venueElements)

\* C7: no pointer-move changes the x or y of an entity whose locked flag is set.
C7_LockedNeverMoves ==
    [][lastOp'.op = "mouseMove"
          => /\ \A i \in DOMAIN tables : tables[i].locked =>
                   tables'[i].x = tables[i].x /\ tables'[i].y = tables[i].y
             /\ \A i \in DOMAIN chairBlocks : chairBlocks[i].locked =>
                   chairBlocks'[i].x = chairBlocks[i].x /\ chairBlocks'[i].y = chairBlocks[i].y
             /\ \A i \in DOMAIN venueElements : venueElements[i].locked =>
                   venueElements'[i].x = venueElements[i].x
                   /\ venueElements'[i].y = venueElements[i].y]_vars

\* C8: rotating the selection while the selected entity is locked changes none
\* of its width, height, orientation, rows, cols or assignments.
C8_LockedNeverRotates ==
    [][(lastOp'.op = "rotateSelected" /\ selectedItem # NULL)
          => /\ \A i \in DOMAIN tables :
                   (selectedItem.type = "table" /\ tables[i].id = selectedItem.item.id
                    /\ tables[i].locked) => tables'[i] = tables[i]
             /\ \A i \in DOMAIN chairBlocks :
                   (selectedItem.type = "block" /\ chairBlocks[i].id = selectedItem.item.id
                    /\ chairBlocks[i].locked) => chairBlocks'[i] = chairBlocks[i]
             /\ \A i \in DOMAIN venueElements :
                   (selectedItem.type = "venue" /\ venueElements[i].id = selectedItem.item.id
                    /\ venueElements[i].locked) => venueElements'[i] = venueElements[i]]_vars

\* the anchor of e lies in [0, roomWidth] x [0, roomHeight]
InRoom(e) == 0 <= e.x /\ e.x <= Ft(roomWidth) /\ 0 <= e.y /\ e.y <= Ft(roomHeight)

\* C9: in every reachable state every entity's anchor lies inside the room,
\* 0 <= x <= roomWidth and 0 <= y <= roomHeight.
C9_AnchorsInRoom ==
    /\ \A i \in DOMAIN tables : InRoom(tables[i])
    /\ \A i \in DOMAIN chairBlocks : InRoom(chairBlocks[i])
    /\ \A i \in DOMAIN venueElements : InRoom(venueElements[i])

\* the anchors of all entities
Positions ==
    <<[i \in DOMAIN tables |-> <<tables[i].x, tables[i].y>>],
      [i \in DOMAIN chairBlocks |-> <<chairBlocks[i].x, chairBlocks[i].y>>],
      [i \in DOMAIN venueElements |-> <<venueElements[i].x, venueElements[i].y>>]>>

\* C10: while the pointer of a drag gesture has never been more than 0.5 ft from
\* where it went down, on either axis, no step of the gesture (pointer down,
\* pointer move, pointer up) captures an undo checkpoint or changes an entity.
C10_SmallDragChangesNothing ==
    [][(\/ /\ lastOp'.op \in {"mouseDown", "mouseMove"}
           /\ gest'.kind \in {"single", "multi"} /\ ~gest'.exceeded
        \/ /\ lastOp'.op = "mouseUp"
           /\ gest.kind \in {"single", "multi"} /\ ~gest.exceeded)
          => undoStack' = undoStack /\ Positions' = Positions]_vars

\* C10 witness: the pointer of a drag of an unlocked entity has moved, by less
\* than the threshold.
C10_Witness ==
    /\ lastOp.op = "mouseMove" /\ button = "down"
    /\ gest.kind = "single" /\ ~gest.exceeded
    /\ lastOp.x # gest.startX
    /\ dragRef.entity # NULL /\ ~dragRef.entity.locked



C12_OneCheckpointPerAction ==
    [][lastOp'.op \notin {"undo", "redo"} => Len(undoStack') <= Len(undoStack) + 1]_vars


\* the committed entities with their assignment maps
EntityState == <<tables, chairBlocks, venueElements>>

\* C13: every action that changes an entity or an assignment map leaves on top
\* of the undo stack a checkpoint of the entities as they were just before the
\* action, so that an undo right after it restores them. (The pointer-moves of
\* a drag or resize rely on the checkpoint their gesture has already pushed and
\* are not constrained here.)
C13_CheckpointBeforeChange ==
    [][(lastOp'.op \notin {"undo", "redo", "mouseMove"} /\ EntityState' # EntityState)
          => /\ Len(undoStack') > 0
             /\ LET top == undoStack'[Len(undoStack')]
                IN  <<top.tables, top.chairBlocks, top.venueElements>> = EntityState]_vars


\* the gestures of the interaction state machine, as the handlers test them
GhostPending == ghostEntity # NULL
PanActive == panRef.active
ResizeActive == resizeRef # NULL
SingleDragActive == dragging /\ dragRef.entity # NULL
MultiDragActive == dragging /\ dragRef.multiDrag # <<>>
ActiveGestures ==
    {g \in {"ghost", "pan", "resize", "single", "multi"} :
        \/ g = "ghost" /\ GhostPending
        \/ g = "pan" /\ PanActive
        \/ g = "resize" /\ ResizeActive
        \/ g = "single" /\ SingleDragActive
        \/ g = "multi" /\ MultiDragActive}

\* C14: in every reachable state at most one of ghost pending, pan active,
\* resize active, single drag active and multi drag active holds (so no
\* pointer-down has started a gesture while another was still active).
C14_OneGestureAtATime == Cardinality(ActiveGestures) <= 1

\* C15: after every pointer-up on the canvas no pan, no resize and no single or
\* multi drag is active.
C15_MouseUpReturnsToIdle ==
    [][lastOp'.op = "mouseUp"
          => ~PanActive' /\ ~ResizeActive' /\ ~SingleDragActive' /\ ~MultiDragActive']_vars


\* new is old with the ghost g appended, placed somewhere
Committed(old, new, g) ==
    /\ Len(new) = Len(old) + 1
    /\ SubSeq(new, 1, Len(old)) = old
    /\ [new[Len(new)] EXCEPT !.x = g.x, !.y = g.y] = g

\* C16: a pointer-down on the canvas while a ghost is pending appends exactly the
\* ghost to the collection of its kind, advances that kind's id counter by one,
\* clears the ghost, and changes neither the selection nor the drag, resize and
\* pan state, whatever lies under the pointer.
C16_MouseDownCommitsGhost ==
    [][(lastOp'.op = "mouseDown" /\ ghostEntity # NULL)
          => /\ ghostEntity' = NULL
             /\ ghostEntity.type = "table" =>
                   /\ Committed(tables, tables', ghostEntity)
                   /\ nextTableId' = nextTableId + 1
                   /\ UNCHANGED <<chairBlocks, venueElements, nextBlockId, nextElementId>>
             /\ ghostEntity.type = "block" =>
                   /\ Committed(chairBlocks, chairBlocks', ghostEntity)
                   /\ nextBlockId' = nextBlockId + 1
                   /\ UNCHANGED <<tables, venueElements, nextTableId, nextElementId>>
             /\ ghostEntity.type = "venue" =>
                   /\ Committed(venueElements, venueElements', ghostEntity)
                   /\ nextElementId' = nextElementId + 1
                   /\ UNCHANGED <<tables, chairBlocks, nextTableId, nextBlockId>>
             /\ UNCHANGED <<selVars, gestureVars>>]_vars

\* C16 witness: a venue ghost has just been committed by a pointer-down over a
\* table that was already there.
C16_Witness ==
    /\ lastOp.op = "mouseDown" /\ gest.kind = "ghost"
    /\ undoStack # <<>>
    /\ LET before == undoStack[Len(undoStack)]
       IN  /\ Len(venueElements) = Len(before.venueElements) + 1
           /\ \E i \in DOMAIN before.tables :
                  TableBodyHit(gest.startX, gest.startY, before.tables[i])


\* C17: while a ghost is pending a pointer-move changes nothing but the ghost's
\* position; creating the ghost, and cancelling it by Escape or right-click,
\* leave the table, block and venue collections, the id counters and the undo
\* stack as they are, and the cancel discards the ghost.
C17_GhostIsNotCommitted ==
    [][/\ (lastOp'.op = "mouseMove" /\ ghostEntity # NULL)
            => /\ ghostEntity' # NULL
               /\ [ghostEntity' EXCEPT !.x = ghostEntity.x, !.y = ghostEntity.y] = ghostEntity
               /\ UNCHANGED <<domainVars, idVars, stackVars, selVars, gestureVars>>
       /\ (lastOp'.op \in {"cancelGhost", "contextMenu"} /\ ghostEntity # NULL)
            => /\ ghostEntity' = NULL
               /\ UNCHANGED <<tables, chairBlocks, venueElements, idVars, undoStack>>
       /\ lastOp'.op = "confirmAdd"
            => UNCHANGED <<tables, chairBlocks, venueElements, idVars, undoStack>>]_vars

\* C17 witness: a pending ghost has just been cancelled, by Escape or by
\* right-click.
C17_Witness ==
    /\ lastOp.op \in {"cancelGhost", "contextMenu"} /\ lastOp.ghost
    /\ ghostEntity = NULL


\* the assignment map of the entity a swap was called on, in a layout
AssignmentsIn(tbls, blks, type, id) ==
    FindById(IF type = "table" THEN tbls ELSE blks, id, NULL).assignments

\* C18: a swap of seats A and B of an entity right after the same swap leaves
\* the entity's assignment map as it was before the first one; a swap with
\* exactly one of the two seats occupied moves that occupant to the other seat
\* and changes no other seat.
C18_SwapTwiceRestores ==
    [][lastOp'.op = "swapSeats" =>
         LET A == lastOp'.seatKeyA
             B == lastOp'.seatKeyB
             a == AssignmentsIn(tables, chairBlocks, lastOp'.entityType, lastOp'.entityId)
             a2 == AssignmentsIn(tables', chairBlocks', lastOp'.entityType, lastOp'.entityId)
             Moved(from, to) ==
                 /\ DOMAIN a2 = (DOMAIN a \ {from}) \cup {to}
                 /\ a2[to] = a[from]
                 /\ \A k \in DOMAIN a \ {from} : a2[k] = a[k]
         IN  /\ lastOp'.repeat => a2 = lastOp.before
             /\ (A \in DOMAIN a /\ B \notin DOMAIN a) => Moved(A, B)
             /\ (B \in DOMAIN a /\ A \notin DOMAIN a) => Moved(B, A)]_vars

\* C18 witness: the second of two equal swaps in a row has run on two seats of
\* which exactly one was occupied.
C18_Witness ==
    /\ lastOp.op = "swapSeats" /\ lastOp.repeat
    /\ lastOp.seatKeyA # lastOp.seatKeyB
    /\ Cardinality(DOMAIN lastOp.before \cap {lastOp.seatKeyA, lastOp.seatKeyB}) = 1


\* C19: a seat-to-seat move between two different entities, from an occupied
\* seat to an empty one, ends with the attendee seated at the destination, the
\* source seat empty and every other seat as it was; a move within one entity
\* leaves the assignment map a swap of the two seats would leave.
C19_MoveAcrossEntities ==
    [][lastOp'.op = "moveSeatToSeat" =>
         LET src == lastOp'.src
             dst == lastOp'.dst
             sa == AssignmentsIn(tables, chairBlocks, src[1], src[2])
             da == AssignmentsIn(tables, chairBlocks, dst[1], dst[2])
             sa2 == AssignmentsIn(tables', chairBlocks', src[1], src[2])
             da2 == AssignmentsIn(tables', chairBlocks', dst[1], dst[2])
         IN  IF src[1] = dst[1] /\ src[2] = dst[2]
             THEN sa2 = SwapIn(sa, src[3], dst[3])
             ELSE (src[3] \in DOMAIN sa /\ dst[3] \notin DOMAIN da)
                     => /\ da2 = With(da, dst[3], sa[src[3]])
                        /\ sa2 = Without(sa, src[3])]_vars


\* C20: rotating a selected round table of n seats moves every attendee seated
\* at it from seat k to seat (k + shift) mod n, with shift = floor(n / 4) for
\* n >= 4 and 1 otherwise, and leaves nobody at any other seat.
C20_RotateShiftsSeats ==
    [][(/\ lastOp'.op = "rotateSelected" /\ selectedItem # NULL
        /\ selectedItem.type = "table" /\ selectedItem.item.tableType = "round"
        /\ FindById(tables, selectedItem.item.id, NULL) # NULL)
          => LET t == FindById(tables, selectedItem.item.id, NULL)
                 t2 == FindById(tables', selectedItem.item.id, NULL)
                 n == t.seats
                 shift == IF n >= 4 THEN n \div 4 ELSE 1
             IN  /\ DOMAIN t2.assignments = {(k + shift) % n : k \in DOMAIN t.assignments}
                 /\ \A k \in DOMAIN t.assignments :
                        t2.assignments[(k + shift) % n] = t.assignments[k]]_vars

\* C21: four rotations in a row of the same selected chair block leave the block
\* with the rows, the cols and the assignment map it had before the first.
C21_FourRotationsRestore ==
    (lastOp.op = "rotateSelected" /\ lastOp.run = 4 /\ selectedItem.type = "block")
        => LET before == FindById(undoStack[Len(undoStack) - 3].chairBlocks,
                                  selectedItem.item.id, NULL)
               now == FindById(chairBlocks, selectedItem.item.id, NULL)
           IN  /\ now.rows = before.rows /\ now.cols = before.cols
               /\ now.assignments = before.assignments

\* the collection of one kind among three given collections
KindOf(tbls, blks, vens, type) ==
    IF type = "table" THEN tbls ELSE IF type = "block" THEN blks ELSE vens

\* C22: Copy appends exactly one entity of the selected kind, with an id no
\* entity of that kind has, no seat taken, and its anchor at the current anchor
\* of the source entity plus (3 ft, 3 ft); every entity there was is unchanged.
C22_CopyOffsetsCurrentAnchor ==
    [][(/\ lastOp'.op = "copySelected"
        /\ FindById(Collection(selectedItem.type), selectedItem.item.id, NULL) # NULL)
          => LET type == selectedItem.type
                 old == Collection(type)
                 new == KindOf(tables', chairBlocks', venueElements', type)
                 src == FindById(old, selectedItem.item.id, NULL)
                 copy == new[Len(new)]
             IN  /\ Len(new) = Len(old) + 1 /\ SubSeq(new, 1, Len(old)) = old
                 /\ \A k \in {"table", "block", "venue"} \ {type} :
                        KindOf(tables', chairBlocks', venueElements', k) = Collection(k)
                 /\ copy.type = src.type
                 /\ \A i \in DOMAIN old : old[i].id # copy.id
                 /\ type # "venue" => copy.assignments = EmptyMap
                 /\ copy.x = src.x + Ft(COPY_OFFSET)
                 /\ copy.y = src.y + Ft(COPY_OFFSET)]_vars

\* C23: every repaint derives as many seat positions as the entity has seats:
\* seats for a round table, 2 * seats + 2 * endSeats for a rectangular table in
\* either orientation, rows * cols for a chair block.
C23_SeatCount ==
    lastOp.op = "drawCanvas"
        => /\ \A i \in DOMAIN tables :
                 Len(lastOp.tableSeats[i]) =
                     IF tables[i].tableType = "round" THEN tables[i].seats
                     ELSE 2 * tables[i].seats + 2 * tables[i].endSeats
           /\ \A i \in DOMAIN tables :
                 tables[i].tableType = "rect"
                     => Len(getRectSeatPositions(tables[i])) = Len(lastOp.tableSeats[i])
           /\ \A i \in DOMAIN chairBlocks :
                 Len(lastOp.blockSeats[i]) = chairBlocks[i].rows * chairBlocks[i].cols

\* a repaint of a rectangular table with one seat per side and two per end,
\* next to a block of two rows of three chairs
C23_Witness ==
    /\ lastOp.op = "drawCanvas"
    /\ tables[1].tableType = "rect" /\ tables[1].orientation = "vertical"
    /\ tables[1].seats = 1 /\ tables[1].endSeats = 2
    /\ Len(lastOp.tableSeats[1]) = 6
    /\ chairBlocks[1].rows = 2 /\ chairBlocks[1].cols = 3
    /\ Len(lastOp.blockSeats[1]) = 6

\* the chair spacing of the claim, in units: 1.5, 2 and 2.5 ft
SpacingFt(b) ==
    IF b.spacing = "tight" THEN Ft(3) \div 2
    ELSE IF b.spacing = "normal" THEN Ft(2) ELSE Ft(5) \div 2

\* the canvas pixel of a room position given in units
AtFeet(x, y) == [x |-> Px(offsetX) + FtPx(x), y |-> Px(offsetY) + FtPx(y)]

\* C24: every repaint puts the chair of seat (r, c) of a block at the anchor plus
\* ((c + 0.5) * spacing, (r + 0.5) * spacing), spacing being 1.5, 2 or 2.5 ft for
\* tight, normal or wide, draws one chair for each (r, c), and gives the block a
\* box of cols * spacing by rows * spacing from the anchor; seat (1, 2) of a
\* normal block of 2 rows and 3 columns anchored at (5, 5) is at (10, 8).
C24_BlockSeatCentres ==
    lastOp.op = "drawCanvas"
        => \A i \in DOMAIN chairBlocks :
             LET b == chairBlocks[i]
                 drawn == lastOp.blockSeats[i]
                 box == lastOp.blockBorders[i]
             IN  /\ {drawn[k].key : k \in DOMAIN drawn}
                        = (0..(b.rows - 1)) \X (0..(b.cols - 1))
                 /\ \A k \in DOMAIN drawn :
                        LET r == drawn[k].key[1]
                            c == drawn[k].key[2]
                        \* (c + 0.5) * spacing = ((2c + 1) * spacing) / 2, exact in units
                        IN  drawn[k].at = AtFeet(b.x + ((2 * c + 1) * SpacingFt(b)) \div 2,
                                                 b.y + ((2 * r + 1) * SpacingFt(b)) \div 2)
                 /\ box = [x |-> AtFeet(b.x, b.y).x, y |-> AtFeet(b.x, b.y).y,
                           w |-> FtPx(b.cols * SpacingFt(b)), h |-> FtPx(b.rows * SpacingFt(b))]
                 /\ (b.rows = 2 /\ b.cols = 3 /\ b.spacing = "normal"
                        /\ b.x = Ft(5) /\ b.y = Ft(5))
                      => \E k \in DOMAIN drawn : /\ drawn[k].key = <<1, 2>>
                                                  /\ drawn[k].at = AtFeet(Ft(10), Ft(8))

\* a repaint of the block of the example
C24_Witness ==
    /\ lastOp.op = "drawCanvas"
    /\ chairBlocks[1].x = Ft(5) /\ chairBlocks[1].y = Ft(5)
    /\ chairBlocks[1].rows = 2 /\ chairBlocks[1].cols = 3
    /\ chairBlocks[1].spacing = "normal"
    /\ lastOp.blockSeats[1][6] = [key |-> <<1, 2>>, at |-> AtFeet(Ft(10), Ft(8))]

\* every entity of the layout with its kind
Entities ==
    {[type |-> "table", item |-> tables[i]] : i \in DOMAIN tables}
    \cup {[type |-> "block", item |-> chairBlocks[i]] : i \in DOMAIN chairBlocks}
    \cup {[type |-> "venue", item |-> venueElements[i]] : i \in DOMAIN venueElements}

\* raw coordinates fed to the snap: every unit from 0 to 11 ft
SnapRaws == 0..Ft(11)

\* C25: for every entity of every kind, at every grid size and with snapping on
\* or off, snapping the result of a snap returns that result.
C25_SnapIdempotent ==
    \A e \in Entities : \A r \in SnapRaws \cup {e.item.x, e.item.y} :
        LET p == snapEntityPos(r, r, e.item, e.type)
        IN  snapEntityPos(p.x, p.y, e.item, e.type) = p

\* the rectangular table has just been dragged 12 ft 7 in to the right with the
\* grid at 5 ft: it sits where the snap put it, which is not where the pointer
\* led, and a second snap leaves it there
C25_Witness ==
    /\ lastOp.op = "mouseMove" /\ dragRef.hasMoved /\ dragRef.entity # NULL
    /\ dragRef.entity.id = 2 /\ selectedItem.type = "table"
    /\ snapEnabled /\ gridSize = 5
    /\ tables[2].x # dragRef.origX + pxToFt(lastOp.x - dragRef.startX)
    /\ tables[2].x = Ft(32) + Ft(1) \div 2
    /\ snapEntityPos(tables[2].x, tables[2].y, tables[2], "table")
          = [x |-> tables[2].x, y |-> tables[2].y]

\* v is a whole number of grid cells
OnGrid(v) == v % Ft(gridSize) = 0

\* C26: a drag step with snapping on leaves the dragged entity on the grid by
\* the anchor of its kind: the centre of a round table or of a venue element, the
\* top-left corner of a chair block, the top-left corner (centre minus half the
\* width and height) of a rectangular table.
C26_SnapByAnchorKind ==
    [][(/\ lastOp'.op = "mouseMove" /\ button = "down" /\ gest.kind = "single"
        /\ dragRef'.hasMoved /\ ~dragRef.entity.locked /\ snapEnabled)
          => LET type == selectedItem.type
                 e == FindById(KindOf(tables', chairBlocks', venueElements', type),
                               dragRef.entity.id, NULL)
             IN  IF type = "table" /\ e.tableType = "rect"
                 THEN /\ OnGrid(e.x - e.widthFt \div 2)
                      /\ OnGrid(e.y - e.heightFt \div 2)
                 ELSE OnGrid(e.x) /\ OnGrid(e.y)]_vars

\* the entity of a kind and id in the next state
After(type, id) == FindById(KindOf(tables', chairBlocks', venueElements', type), id, NULL)

\* C27: every pointer-move of a drag that is past the threshold puts each
\* dragged entity, in a single drag and in a multi drag alike, at the snap of
\* its original position plus the pointer displacement, clamped to the room.
C27_DragClampsThenSnaps ==
    [][(/\ lastOp'.op = "mouseMove" /\ button = "down" /\ dragRef'.hasMoved
        /\ gest.kind \in {"single", "multi"}
        /\ gest.kind = "single" => ~dragRef.entity.locked)
          => LET dx == pxToFt(lastOp'.x - dragRef.startX)
                 dy == pxToFt(lastOp'.y - dragRef.startY)
                 Target(origX, origY, e, type) ==
                     snapEntityPos(Clamp(0, Ft(roomWidth), origX + dx),
                                   Clamp(0, Ft(roomHeight), origY + dy), e, type)
                 At(e) == [x |-> e.x, y |-> e.y]
             IN  IF gest.kind = "single"
                 THEN At(After(selectedItem.type, dragRef.entity.id))
                        = Target(dragRef.origX, dragRef.origY, dragRef.entity, selectedItem.type)
                 ELSE \A k \in DOMAIN dragRef.multiDrag :
                        LET it == dragRef.multiDrag[k]
                        IN  At(After(it.type, it.id))
                              = Target(it.origX, it.origY, After(it.type, it.id), it.type)]_vars

\* the four corners of a venue element, in units
Corners(v) ==
    {<<v.x + sx * (v.widthFt \div 2), v.y + sy * (v.heightFt \div 2)>> :
        sx \in {-1, 1}, sy \in {-1, 1}}

\* C28: after every pointer-move of a resize the resized venue element is at
\* least 2 ft wide and 2 ft high, with snapping on or off, and the corner
\* opposite the grabbed handle is still one of its corners.
C28_ResizeFloorAndAnchor ==
    [][(/\ lastOp'.op = "mouseMove" /\ gest.kind = "resize" /\ resizeRef # NULL
        /\ FindById(venueElements, resizeRef.entityId, NULL) # NULL)
          => LET v == FindById(venueElements', resizeRef.entityId, NULL)
             IN  /\ v.widthFt >= Ft(MIN_SIZE) /\ v.heightFt >= Ft(MIN_SIZE)
                 /\ <<resizeRef.anchorX, resizeRef.anchorY>> \in Corners(v)]_vars

\* the booth was grabbed by its bottom-right handle and the pointer is half a
\* foot from the opposite corner: the booth is 2 ft by 2 ft, its top-left corner
\* where it was
C28_Witness ==
    /\ lastOp.op = "mouseMove" /\ lastOp.x = 430 /\ lastOp.y = 280
    /\ gest.kind = "resize" /\ resizeRef # NULL /\ resizeRef.corner = 3
    /\ resizeRef.anchorX = Ft(32) /\ resizeRef.anchorY = Ft(18)
    /\ venueElements[1].widthFt = Ft(MIN_SIZE) /\ venueElements[1].heightFt = Ft(MIN_SIZE)
    /\ venueElements[1].x = Ft(33) /\ venueElements[1].y = Ft(19)

\* the greatest index of a non-empty set of indices
Latest(S) == CHOOSE i \in S : \A j \in S : j <= i

\* the entity the claim names for a pixel: the table added last among the tables
\* whose hit region holds the pixel, else such a block, else such a venue element
TopEntity(x, y) ==
    LET T == {i \in DOMAIN tables : TableBodyHit(x, y, tables[i])}
        B == {i \in DOMAIN chairBlocks : BlockBodyHit(x, y, chairBlocks[i])}
        V == {i \in DOMAIN venueElements : VenueBodyHit(x, y, venueElements[i])}
    IN  IF T # {} THEN [type |-> "table", item |-> tables[Latest(T)]]
        ELSE IF B # {} THEN [type |-> "block", item |-> chairBlocks[Latest(B)]]
        ELSE IF V # {} THEN [type |-> "venue", item |-> venueElements[Latest(V)]]
        ELSE NULL

\* C29: a pointer-down that reaches the body hit test selects a table if any
\* table's hit region holds the pointer, else a block, else a venue element, in
\* each kind the one added last, and pans when no entity is under the pointer.
C29_HitPriority ==
    [][(lastOp'.op = "mouseDown" /\ gest'.kind \in {"single", "pan"})
          => LET top == TopEntity(gest'.startX, gest'.startY)
             IN  IF gest'.kind = "pan" THEN top = NULL
                 ELSE /\ top # NULL
                      /\ selectedItem' = top
                      /\ dragRef'.entity = top.item]_vars

\* the pointer went down where two tables, two blocks and two booths overlap, and
\* the table added last was taken
C29_Witness ==
    /\ lastOp.op = "mouseDown" /\ gest.kind = "single"
    /\ gest.startX = 424 /\ gest.startY = 300
    /\ Len(tables) = 2 /\ tables[1].x # tables[2].x
    /\ \A i \in {1, 2} : TableBodyHit(424, 300, tables[i])
    /\ \E i \in DOMAIN chairBlocks : BlockBodyHit(424, 300, chairBlocks[i])
    /\ Len(venueElements) = 2
    /\ \A i \in {1, 2} : VenueBodyHit(424, 300, venueElements[i])
    /\ selectedItem = [type |-> "table", item |-> tables[2]]

\* the venue elements that offer handles at a pixel: selected, unlocked, and
\* with a corner whose handle area holds the pixel
Grabbable(x, y) ==
    {i \in DOMAIN venueElements :
        /\ isSelected(venueElements[i]) /\ ~venueElements[i].locked
        /\ \E c \in 0..3 : HandleHit(x, y, venueElements[i], c)}

\* C30: with no ghost pending, a pointer-down starts a resize exactly when the
\* pointer is in the handle area of a corner of a selected, unlocked venue
\* element; the resize is then of such an element and no entity body under the
\* pointer is selected or dragged instead.
C30_ResizeIffOnHandle ==
    [][(lastOp'.op = "mouseDown" /\ ghostEntity = NULL)
          => LET x == gest'.startX
                 y == gest'.startY
                 G == Grabbable(x, y)
             IN  /\ (gest'.kind = "resize") <=> (G # {})
                 /\ (resizeRef' # NULL) <=> (G # {})
                 /\ G # {} => /\ \E i \in G : resizeRef'.entityId = venueElements[i].id
                              /\ selectedItem' = selectedItem
                              /\ dragRef' = dragRef /\ panRef' = panRef]_vars

\* the pointer went down on the bottom-right handle of the selected booth, over
\* the bodies of a table and of a block: the booth is being resized
C30_Witness ==
    /\ lastOp.op = "mouseDown" /\ gest.kind = "resize"
    /\ gest.startX = 436 /\ gest.startY = 317
    /\ resizeRef # NULL /\ resizeRef.corner = 3
    /\ selectedItem.type = "venue" /\ selectedItem.item.id = resizeRef.entityId
    /\ \E i \in DOMAIN tables : TableBodyHit(436, 317, tables[i])
    /\ \E i \in DOMAIN chairBlocks : BlockBodyHit(436, 317, chairBlocks[i])
    /\ dragRef.entity = NULL

\* C31: a pointer-down on empty space records the pan of that moment; at the
\* pointer-up that ends it, if the pointer never went more than 3 px from the
\* pointer-down position on either axis the selection is cleared and the pan is
\* the recorded one, and if it did the pan is the recorded one plus the
\* displacement of the pointer and the selection is as it was.
C31_ClickOrPan ==
    [][/\ (lastOp'.op = "mouseDown" /\ gest'.kind = "pan")
            => panRef'.origPanX = panX /\ panRef'.origPanY = panY
       /\ (lastOp'.op = "mouseUp" /\ gest.kind = "pan")
            => IF ~gest.far
               THEN /\ selectedItem' = NULL /\ selectedItems' = <<>>
                    /\ panX' = panRef.origPanX /\ panY' = panRef.origPanY
               ELSE /\ lastOp.op = "mouseMove"
                    /\ panX' = panRef.origPanX + (lastOp.x - gest.startX)
                    /\ panY' = panRef.origPanY + (lastOp.y - gest.startY)
                    /\ UNCHANGED selVars]_vars

\* a drag of 4 px on empty space has ended: the view is panned by 4 px and the
\* booth is still selected
C31_Witness ==
    /\ lastOp.op = "mouseUp" /\ ~panRef.active
    /\ panX = 4 /\ panY = 0
    /\ selectedItem # NULL /\ selectedItem.type = "venue"

ZoomLevels == {ZOOM_STEP * k : k \in 1..(ZOOM_MAX \div ZOOM_STEP)}

\* C32: starting from 100, zoomLevel is always a multiple of 25 within
\* [25, 400], and every wheel step and every + or - press changes it by exactly
\* 25 in its direction, except at the bound of that direction, where it stays.
C32_ZoomSteps ==
    /\ zoomLevel = ZOOM_FIT
    /\ [][/\ zoomLevel \in ZoomLevels /\ zoomLevel' \in ZoomLevels
          /\ (lastOp'.op = "zoomInButton" \/ (lastOp'.op = "wheelZoom" /\ lastOp'.deltaNeg))
               => zoomLevel' = IF zoomLevel = ZOOM_MAX THEN zoomLevel ELSE zoomLevel + 25
          /\ (lastOp'.op = "zoomOutButton" \/ (lastOp'.op = "wheelZoom" /\ ~lastOp'.deltaNeg))
               => zoomLevel' = IF zoomLevel = ZOOM_MIN THEN zoomLevel ELSE zoomLevel - 25]_vars

\* a zoom-in step has been taken at the upper bound
C32_Witness ==
    /\ zoomLevel = ZOOM_MAX
    /\ lastOp.op \in {"zoomInButton", "wheelZoom"}
    /\ panX # 0

\* world coordinates probed: every twelfth of a foot of the first two feet, and
\* the far corner of the room
ProbeFeet == 0..Ft(2) \cup {Ft(INIT_ROOM_HEIGHT), Ft(INIT_ROOM_WIDTH)}

MemberAt(type, item) ==
    {i \in 1..Len(selectedItems) :
        selectedItems[i].type = type /\ selectedItems[i].item.id = item.id}

\* C34: a pointer-down that reaches the body of an entity, no modifier held:
\* when the entity is one of more than one selected items a multi drag of all
\* of them starts and the selection is kept, otherwise the selection becomes
\* that entity alone, the multi-selection empties and a single drag of it
\* starts. With the modifier held the entity leaves the multi-selection if it
\* was in it and joins it otherwise, and nothing else of the selection or of
\* the gesture state changes.
C34_PointerDownOnEntity ==
    [][(/\ lastOp'.op = "mouseDown"
        /\ ghostEntity = NULL /\ dragAttendee = <<>> /\ popupDragSeat = NULL
        /\ Grabbable(gest'.startX, gest'.startY) = {}
        /\ TopEntity(gest'.startX, gest'.startY) # NULL)
          => LET top == TopEntity(gest'.startX, gest'.startY)
                 M == MemberAt(top.type, top.item)
             IN  IF lastOp'.ctrlHeld
                 THEN /\ UNCHANGED <<selectedItem, dragging, dragRef, panRef, resizeRef>>
                      /\ IF M = {}
                         THEN selectedItems' = Append(selectedItems, top)
                         ELSE /\ Len(selectedItems') = Len(selectedItems) - Cardinality(M)
                              /\ \A i \in 1..Len(selectedItems') :
                                     /\ \E j \in 1..Len(selectedItems) :
                                            selectedItems[j] = selectedItems'[i]
                                     /\ ~(selectedItems'[i].type = top.type
                                           /\ selectedItems'[i].item.id = top.item.id)
                 ELSE IF Len(selectedItems) > 1 /\ M # {}
                 THEN /\ UNCHANGED <<selectedItem, selectedItems>>
                      /\ dragging' /\ dragRef'.entity = NULL
                      /\ Len(dragRef'.multiDrag) = Len(selectedItems)
                      /\ \A i \in 1..Len(selectedItems) :
                             /\ dragRef'.multiDrag[i].type = selectedItems[i].type
                             /\ dragRef'.multiDrag[i].id = selectedItems[i].item.id
                 ELSE /\ selectedItem' = top /\ selectedItems' = <<>>
                      /\ dragging' /\ dragRef'.entity = top.item
                      /\ dragRef'.multiDrag = <<>>]_vars

\* the pointer went down without the modifier on one of two selected entities:
\* both are being dragged and both are still selected
C34_Witness ==
    /\ lastOp.op = "mouseDown" /\ ~lastOp.ctrlHeld
    /\ gest.kind = "multi" /\ Len(selectedItems) = 2
    /\ dragging /\ dragRef.entity = NULL /\ Len(dragRef.multiDrag) = 2

\* the collection with attendee att put on seat key of entity id, and nothing else
Seated(coll, id, key, att) ==
    [i \in 1..Len(coll) |->
        IF coll[i].id = id
        THEN [coll[i] EXCEPT !.assignments = With(coll[i].assignments, key, att)]
        ELSE coll[i]]

\* the open seat keys of an entity: seat numbers of a table, <<row, col>> of a block
OpenKeys(e) ==
    IF e.type = "table"
    THEN {k \in 0..(getTableTotalSeats(e) - 1) : k \notin DOMAIN e.assignments}
    ELSE {k \in (0..(e.rows - 1)) \X (0..(e.cols - 1)) : k \notin DOMAIN e.assignments}

\* seat key j comes before seat key k: by number, or row first and then column
Before(e, j, k) ==
    IF e.type = "table" THEN j <= k
    ELSE j[1] < k[1] \/ (j[1] = k[1] /\ j[2] <= k[2])

\* the drop put att on seat key of the entity (type, id): one checkpoint more,
\* that seat taken, and every other seat and entity as before
DroppedOn(type, id, key, att) ==
    /\ Len(undoStack') = Len(undoStack) + 1
    /\ undoStack'[Len(undoStack')] = Snapshot
    /\ IF type = "table"
       THEN tables' = Seated(tables, id, key, att) /\ chairBlocks' = chairBlocks
       ELSE chairBlocks' = Seated(chairBlocks, id, key, att) /\ tables' = tables
    /\ UNCHANGED <<venueElements, attendees, disabledAttendees>>

\* C35: an unseated, enabled attendee dropped on the canvas is put on the empty
\* seat under the pointer if there is one; otherwise, on a table or block body,
\* on the first open seat of that entity (by seat number, row-major for a
\* block), and when that entity has no open seat nothing changes and no
\* checkpoint is captured.
C35_DropOnCanvas ==
    [][(/\ lastOp'.op = "mouseUp" /\ ~panRef.active /\ dragAttendee # <<>>
        /\ dragAttendee[1] \notin assigned
        /\ dragAttendee[1] \notin disabledAttendees)
          => LET att == dragAttendee[1]
                 si == lastOp'.seatInfo
                 top == TopEntity(lastOp'.x, lastOp'.y)
             IN  IF si # NULL /\ si.seatKey \notin DOMAIN si.entity.assignments
                 THEN DroppedOn(si.entityType, si.entity.id, si.seatKey, att)
                 ELSE (top # NULL /\ top.type \in {"table", "block"})
                      => IF OpenKeys(top.item) = {}
                         THEN UNCHANGED <<domainVars, stackVars>>
                         ELSE \E k \in OpenKeys(top.item) :
                                 /\ \A j \in OpenKeys(top.item) : Before(top.item, k, j)
                                 /\ DroppedOn(top.type, top.item.id, k, att)]_vars

\* the fourth guest was dropped on the body of the block, not on a seat, and
\* sits in the second chair of the first row
C35_Witness ==
    /\ lastOp.op = "mouseUp" /\ "seatInfo" \in DOMAIN lastOp /\ lastOp.seatInfo = NULL
    /\ lastOp.x = 290 /\ lastOp.y = 430
    /\ DOMAIN chairBlocks[1].assignments = {<<0, 0>>, <<0, 1>>}
    /\ chairBlocks[1].assignments[<<0, 1>>] = 3
    /\ Len(undoStack) = 1

\* the roster indices that seats and the disabled set refer to
ReferredIdx == assigned \cup disabledAttendees

\* C36: adding an attendee to the roster leaves every existing attendee at the
\* index they had, so that every seat holds, and the disabled set denotes, the
\* same people before and after the addition.
C36_RosterIndexStable ==
    [][lastOp'.op = "confirmAddAttendee"
          => /\ \A i \in 1..Len(attendees) : attendees'[i] = attendees[i]
             /\ \A a \in ReferredIdx : attendees'[a + 1] = attendees[a + 1]]_vars

\* the attendees seated at the entity of that kind and id, in a layout
SeatedAt(tbls, blks, type, id) ==
    LET coll == IF type = "table" THEN tbls ELSE blks
    IN  UNION {Values(coll[i].assignments) : i \in {j \in DOMAIN coll : coll[j].id = id}}

\* C37: rotating the selected round table or chair block leaves the set of
\* attendees seated at it as it was immediately before, also when seats were
\* assigned, unassigned or rotated after the entity was selected.
C37_RotateKeepsSeated ==
    [][(/\ lastOp'.op = "rotateSelected"
        /\ selectedItem # NULL
        /\ \/ selectedItem.type = "block"
           \/ selectedItem.type = "table" /\ selectedItem.item.tableType = "round")
          => SeatedAt(tables', chairBlocks', selectedItem.type, selectedItem.item.id)
               = SeatedAt(tables, chairBlocks, selectedItem.type, selectedItem.item.id)]_vars

\* C38: in every reachable state every key of an entity's assignment map is a
\* seat of that entity (a table's keys below its total seats, a block's keys
\* within its rows and columns), also after an edit to fewer seats, rows or
\* columns; so no entity seats more attendees than it has seats.
C38_KeysAreSeats ==
    /\ \A i \in DOMAIN tables :
          /\ DOMAIN tables[i].assignments \subseteq 0..(getTableTotalSeats(tables[i]) - 1)
          /\ Cardinality(DOMAIN tables[i].assignments) <= getTableTotalSeats(tables[i])
    /\ \A i \in DOMAIN chairBlocks :
          /\ DOMAIN chairBlocks[i].assignments
                \subseteq (0..(chairBlocks[i].rows - 1)) \X (0..(chairBlocks[i].cols - 1))
          /\ Cardinality(DOMAIN chairBlocks[i].assignments)
                <= getBlockTotalSeats(chairBlocks[i])

\* the seats of a layout as (kind, position in the collection, key) triples: all
\* that exist, and those that are taken
AllSeatsOf(tbls, blks) ==
    UNION {{<<"table", i, k>> : k \in 0..(getTableTotalSeats(tbls[i]) - 1)} : i \in DOMAIN tbls}
    \cup UNION {{<<"block", i, k>> :
                   k \in (0..(blks[i].rows - 1)) \X (0..(blks[i].cols - 1))} : i \in DOMAIN blks}
TakenOf(tbls, blks) ==
    UNION {{<<"table", i, k>> : k \in DOMAIN tbls[i].assignments} : i \in DOMAIN tbls}
    \cup UNION {{<<"block", i, k>> : k \in DOMAIN blks[i].assignments} : i \in DOMAIN blks}
Occupant(tbls, blks, seat) ==
    IF seat[1] = "table" THEN tbls[seat[2]].assignments[seat[3]]
    ELSE blks[seat[2]].assignments[seat[3]]

\* C39: auto-assign leaves every taken seat with its attendee, and fills seats
\* that exist and were empty with attendees that were neither seated nor
\* disabled, each of them once, as many as there are such attendees or empty
\* seats, whichever is fewer.
C39_AutoAssign ==
    [][lastOp'.op = "autoAssign"
          => LET old == TakenOf(tables, chairBlocks)
                 new == TakenOf(tables', chairBlocks') \ old
                 empty == AllSeatsOf(tables, chairBlocks) \ old
                 eligible == {a \in AttendeeIdx : a \notin assigned /\ a \notin disabledAttendees}
                 seated == {Occupant(tables', chairBlocks', seat) : seat \in new}
             IN  /\ Len(tables') = Len(tables) /\ Len(chairBlocks') = Len(chairBlocks)
                 /\ \A seat \in old :
                        /\ seat \in TakenOf(tables', chairBlocks')
                        /\ Occupant(tables', chairBlocks', seat)
                             = Occupant(tables, chairBlocks, seat)
                 /\ new \subseteq empty
                 /\ seated \subseteq eligible
                 /\ Cardinality(seated) = Cardinality(new)
                 /\ Cardinality(seated)
                      = Min(Cardinality(eligible), Cardinality(empty))]_vars

\* auto-assign has run with two guests free and one seat empty: the table is
\* full, the one-chair block keeps its guest, and one guest is still unseated
C39_Witness ==
    /\ lastOp.op = "autoAssign"
    /\ chairBlocks[1].rows = 1 /\ chairBlocks[1].cols = 1
    /\ disabledAttendees = {}
    /\ DOMAIN tables[1].assignments = {0, 1} /\ tables[1].assignments[0] = 1
    /\ chairBlocks[1].assignments = With(EmptyMap, <<0, 0>>, 2)
    /\ Cardinality(assigned) = 3

\* C40: an undo records the state it leaves on the redo stack and takes the top
\* of the undo stack; a redo that follows it at once brings back that recorded
\* state and puts the checkpoint back, so that the domain state and the undo
\* stack are as before the undo. Any other step that adds a checkpoint empties
\* the redo stack.
C40_UndoRedo ==
    [][/\ lastOp'.op = "undo"
            => /\ redoStack' = Append(redoStack, Snapshot)
               /\ undoStack = Append(undoStack', Snapshot')
       /\ (lastOp.op = "undo" /\ lastOp'.op = "redo")
            => /\ Snapshot' = redoStack[Len(redoStack)]
               /\ undoStack' = Append(undoStack, Snapshot)
               /\ redoStack' = SubSeq(redoStack, 1, Len(redoStack) - 1)
       /\ (lastOp'.op \notin {"undo", "redo"} /\ undoStack' # undoStack)
            => /\ undoStack' = Append(undoStack, Snapshot)
               /\ redoStack' = <<>>]_vars

\* two checkpoints were taken, one was undone and redone: both are on the undo
\* stack again, nothing is left to redo, and the table is still locked
C40_Witness ==
    /\ lastOp.op = "redo"
    /\ Len(undoStack) = 2 /\ redoStack = <<>>
    /\ undoStack[1] # undoStack[2]
    /\ tables[1].locked
    /\ Snapshot # undoStack[2]

====
